---- MODULE Spec2Model ----
(***************************************************************************)
(* The MetaGuildNet Python API client (metaguildnet/api/client.py):        *)
(* Client._request, its status classification and body decoding, and the   *)
(* resource clients ClusterAPI, WorkspaceAPI, DatabaseAPI and HealthAPI     *)
(* built on it.  One action is one call of one operation; the answer of    *)
(* the network (a transport failure, or a status and a body) is the input  *)
(* of the call.  Further specifications run the workspace operations       *)
(* against a service that keeps a set of workspaces (SvcSpec), the two      *)
(* polling waiters, cli/workspace.py wait_workspace and run.py              *)
(* _wait_for_workspace_ready (WaitSpec), one refresh of the dashboard,      *)
(* cli/viz.py generate_dashboard (DashSpec), the two refresh loops, viz and *)
(* Dashboard.run, under a live display and interrupts (LoopSpec), the       *)
(* cluster, workspace and db commands of the CLI (CliSpec) and the          *)
(* runner's run_full_workflow (FlowSpec).                                   *)
(***************************************************************************)
EXTENDS Integers, Sequences, FiniteSets, TLC

VARIABLES
    cfg,        \* the Client's configuration: base_url, token, timeout, verify
    calls,      \* number of operation calls made so far
    requests,   \* number of HTTP requests issued so far (client.request calls)
    decodes,    \* number of response.json() calls made so far
    last,       \* the last call: operation, network answer, requests sent, outcome
    svc,        \* the workspace service a client talks to, and the calls made to it
    w,          \* a polling waiter: its loop position, counters and outcome
    dash,       \* the dashboard: one refresh and its requests, or a refresh loop
    cli,        \* a CLI command: its client calls, what it printed, how it ended
    flow        \* the runner's full workflow: the steps run and its result

vars == <<cfg, calls, requests, decodes, last, svc, w, dash, cli, flow>>

\* ------------------------------------------------------------------ bounds

\* Calls made in one behaviour.
MaxCalls == 2

\* ------------------------------------------------------------ input domains

Methods == {"GET", "POST", "PUT", "DELETE"}

\* Statuses a response may carry: below 400, the three classified ones, others.
Statuses == {200, 399, 400, 401, 403, 404, 500}

\* Response bodies: empty, JSON objects with and without the keys the
\* resource clients read, a JSON array, and text that is not JSON.
Bodies == {"", "{}", "{\"clusterId\": \"c-1\"}", "{\"clusters\": []}",
           "{\"clusters\": [{\"id\": \"c1\"}]}", "[]", "{bad"}

\* Connection-level failures: no HTTP status is obtained.
Failures == {"refused", "timeout", "dns", "tls"}

\* What the network answers to one request.
Responses == [ok : {TRUE}, status : Statuses, text : Bodies]
             \cup [ok : {FALSE}, failure : Failures]

ClusterIds == {"c1"}
Names == {"demo"}
BaseUrls == {"https://localhost:8090", "https://localhost:8090/"}
Tokens == {"", "secret"}
RawPaths == {"/api/x"}

\* ------------------------------------------------------------ Python values

PyNone == [py |-> "None"]
PyStr(s) == [py |-> "str", s |-> s]
PyBool(b) == [py |-> "bool", b |-> b]
PyList(items) == [py |-> "list", items |-> items]
PyDict(items) == [py |-> "dict", items |-> items]
EmptyItems == [k \in {} |-> PyNone]

\* How a call ends: it returns a value or raises an exception.
Return(v) == [tag |-> "return", value |-> v]
Raise(cls, msg) == [tag |-> "raise", cls |-> cls, msg |-> msg]

\* The classes an exception class derives from (itself included).
Bases(cls) ==
    CASE cls = "NotFoundError" -> {"NotFoundError", "APIError", "Exception"}
      [] cls = "UnauthorizedError" -> {"UnauthorizedError", "APIError", "Exception"}
      [] cls = "APIError" -> {"APIError", "Exception"}
      [] cls = "httpx.ConnectError" ->
            {"httpx.ConnectError", "httpx.TransportError", "Exception"}
      [] cls = "httpx.ConnectTimeout" ->
            {"httpx.ConnectTimeout", "httpx.TransportError", "Exception"}
      [] cls = "json.JSONDecodeError" ->
            {"json.JSONDecodeError", "ValueError", "Exception"}
      [] cls = "AttributeError" -> {"AttributeError", "Exception"}
      [] cls = "click.Abort" -> {"click.Abort", "RuntimeError", "Exception"}
      [] cls = "requests.ConnectionError" ->
            {"requests.ConnectionError", "requests.RequestException", "Exception"}
      [] cls = "requests.JSONDecodeError" ->
            {"requests.JSONDecodeError", "requests.RequestException",
             "json.JSONDecodeError", "ValueError", "Exception"}
      [] OTHER -> {cls, "Exception"}

IsInstance(out, cls) == out.tag = "raise" /\ cls \in Bases(out.cls)

\* ------------------------------------------------------------ text helpers

Digit(d) == SubSeq("0123456789", d + 1, d + 1)

\* str(n) of a natural number, as the f-strings format it.
RECURSIVE IntToStr(_)
IntToStr(n) == IF n < 10 THEN Digit(n) ELSE IntToStr(n \div 10) \o Digit(n % 10)

\* sub in s
RECURSIVE Contains(_, _)
Contains(s, sub) ==
    IF Len(s) < Len(sub) THEN FALSE
    ELSE IF SubSeq(s, 1, Len(sub)) = sub THEN TRUE
    ELSE Contains(SubSeq(s, 2, Len(s)), sub)

\* s.rstrip("/")
RECURSIVE rstrip_slash(_)
rstrip_slash(s) ==
    IF Len(s) > 0 /\ SubSeq(s, Len(s), Len(s)) = "/"
    THEN rstrip_slash(SubSeq(s, 1, Len(s) - 1))
    ELSE s

\* ------------------------------------------------------------------ Client

\* Client.__init__: the base URL loses its trailing slashes once, here.
Client_init(base_url, token, timeout, verify) ==
    [base_url |-> rstrip_slash(base_url), token |-> token,
     timeout |-> timeout, verify |-> verify]

\* The default timeout of Client.__init__, in seconds.
DefaultTimeout == 30

NoHeaders == [h \in {} |-> ""]
NoJson == [py |-> "absent"]

\* The header set without the "if self.token" test.
Client_request_headers_always(c, headers) ==
    [h \in DOMAIN headers \cup {"Authorization"} |->
        IF h = "Authorization" THEN "Bearer " \o c.token ELSE headers[h]]

\* headers = kwargs.pop("headers", {}); if self.token: headers["Authorization"] = ...
Client_request_headers(c, headers) ==
    IF c.token # ""
    THEN [h \in DOMAIN headers \cup {"Authorization"} |->
            IF h = "Authorization" THEN "Bearer " \o c.token ELSE headers[h]]
    ELSE headers

\* A transport failure reported as an error of the API hierarchy.
TransportFailure_as_APIError(failure) == Raise("APIError", failure)

\* str() of the exception of a connection-level failure, as the socket and
\* TLS layers word it.
TransportMessage(failure) ==
    CASE failure = "refused" -> "[Errno 111] Connection refused"
      [] failure = "timeout" -> "timed out"
      [] failure = "dns" -> "[Errno -2] Name or service not known"
      [] failure = "tls" -> "[SSL: WRONG_VERSION_NUMBER] wrong version number"
      [] OTHER -> failure

\* The exception client.request raises when no response is obtained.
TransportFailure(failure) ==
    IF failure = "timeout"
    THEN Raise("httpx.ConnectTimeout", TransportMessage(failure))
    ELSE Raise("httpx.ConnectError", TransportMessage(failure))

\* response.json(): the decoded document, or the parser's error.
json_loads(text) ==
    CASE text = "{}" -> Return(PyDict(EmptyItems))
      [] text = "{\"clusterId\": \"c-1\"}" ->
            Return(PyDict([k \in {"clusterId"} |-> PyStr("c-1")]))
      [] text = "{\"clusters\": []}" ->
            Return(PyDict([k \in {"clusters"} |-> PyList(<<>>)]))
      [] text = "[]" -> Return(PyList(<<>>))
      [] text = "{\"clusters\": [{\"id\": \"c1\"}]}" ->
            Return(PyDict([k \in {"clusters"} |->
                      PyList(<<PyDict([j \in {"id"} |-> PyStr("c1")])>>)]))
      [] text = "{\"status\": \"Pending\"}" ->
            Return(PyDict([k \in {"status"} |-> PyStr("Pending")]))
      [] text = "{\"status\": \"Running\"}" ->
            Return(PyDict([k \in {"status"} |-> PyStr("Running")]))
      [] text = "{\"status\": \"Failed\"}" ->
            Return(PyDict([k \in {"status"} |-> PyStr("Failed")]))
      [] text = "{\"name\": \"demo\"}" ->
            Return(PyDict([k \in {"name"} |-> PyStr("demo")]))
      [] text = "{\"name\": \"test\"}" ->
            Return(PyDict([k \in {"name"} |-> PyStr("test")]))
      [] text = "{\"clusters\": [{\"id\": \"c1\", \"name\": \"alpha\"}, {\"id\": \"cluster-0123456789\"}]}" ->
            Return(PyDict([k \in {"clusters"} |->
                      PyList(<<PyDict([j \in {"id", "name"} |->
                                        IF j = "id" THEN PyStr("c1") ELSE PyStr("alpha")]),
                               PyDict([j \in {"id"} |-> PyStr("cluster-0123456789")])>>)]))
      [] text = "{\"clusters\": [{\"id\": \"c1\", \"name\": \"alpha\"}, {\"id\": \"cluster-0123456789\"}, {\"name\": \"gamma\"}]}" ->
            Return(PyDict([k \in {"clusters"} |->
                      PyList(<<PyDict([j \in {"id", "name"} |->
                                        IF j = "id" THEN PyStr("c1") ELSE PyStr("alpha")]),
                               PyDict([j \in {"id"} |-> PyStr("cluster-0123456789")]),
                               PyDict([j \in {"name"} |-> PyStr("gamma")])>>)]))
      [] text = "{\"clusters\": [{\"name\": \"gamma\"}]}" ->
            Return(PyDict([k \in {"clusters"} |->
                      PyList(<<PyDict([j \in {"name"} |-> PyStr("gamma")])>>)]))
      [] text = "{\"k8sReachable\": true}" ->
            Return(PyDict([k \in {"k8sReachable"} |-> PyBool(TRUE)]))
      [] text = "{\"k8sReachable\": false}" ->
            Return(PyDict([k \in {"k8sReachable"} |-> PyBool(FALSE)]))
      [] text = "{\"k8sReachable\": false, \"recommendedAction\": \"restart agent\"}" ->
            Return(PyDict([k \in {"k8sReachable", "recommendedAction"} |->
                      IF k = "k8sReachable" THEN PyBool(FALSE)
                      ELSE PyStr("restart agent")]))
      [] text = "{\"servers\": []}" ->
            Return(PyDict([k \in {"servers"} |-> PyList(<<>>)]))
      [] text = "{\"servers\": [{\"name\": \"demo\", \"image\": \"nginx:alpine\", \"status\": \"Running\"}]}" ->
            Return(PyDict([k \in {"servers"} |->
                      PyList(<<PyDict([j \in {"name", "image", "status"} |->
                                        CASE j = "name" -> PyStr("demo")
                                          [] j = "image" -> PyStr("nginx:alpine")
                                          [] OTHER -> PyStr("Running")])>>)]))
      [] OTHER -> Raise("json.JSONDecodeError", text)

NoError == [tag |-> "none"]

\* The status checks with 403 left out of the unauthorized statuses.
Client_request_classify_only401(status, path, text) ==
    IF status = 404 THEN Raise("NotFoundError", "Resource not found: " \o path)
    ELSE IF status = 401 THEN Raise("UnauthorizedError", "Unauthorized")
    ELSE IF status >= 400
         THEN Raise("APIError", "API error " \o IntToStr(status) \o ": " \o text)
    ELSE [tag |-> "none"]

\* The status checks with the last one written "> 400".
Client_request_classify_above400(status, path, text) ==
    IF status = 404 THEN Raise("NotFoundError", "Resource not found: " \o path)
    ELSE IF status \in {401, 403} THEN Raise("UnauthorizedError", "Unauthorized")
    ELSE IF status > 400
         THEN Raise("APIError", "API error " \o IntToStr(status) \o ": " \o text)
    ELSE [tag |-> "none"]

\* The status checks of Client._request: 404, then 401/403, then any >= 400.
Client_request_classify(status, path, text) ==
    IF status = 404 THEN Raise("NotFoundError", "Resource not found: " \o path)
    ELSE IF status \in {401, 403} THEN Raise("UnauthorizedError", "Unauthorized")
    ELSE IF status >= 400
         THEN Raise("APIError", "API error " \o IntToStr(status) \o ": " \o text)
    ELSE NoError

\* The body handling without the DELETE short-circuit.
Client_request_body_decodes_delete(method, text) ==
    IF text # "" THEN [json_calls |-> 1, out |-> json_loads(text)]
    ELSE [json_calls |-> 0, out |-> Return(PyNone)]

\* The body handling that decodes an empty body too.
Client_request_body_decodes_empty(method, text) ==
    IF method = "DELETE" THEN [json_calls |-> 0, out |-> Return(PyNone)]
    ELSE [json_calls |-> 1, out |-> json_loads(text)]

\* The body handling that turns a parse failure into None.
Client_request_body_swallows(method, text) ==
    IF method = "DELETE" THEN [json_calls |-> 0, out |-> Return(PyNone)]
    ELSE IF text # ""
         THEN [json_calls |-> 1,
               out |-> IF json_loads(text).tag = "raise" THEN Return(PyNone)
                       ELSE json_loads(text)]
    ELSE [json_calls |-> 0, out |-> Return(PyNone)]

\* The body handling that wraps a parse failure in an APIError.
Client_request_body_wraps(method, text) ==
    IF method = "DELETE" THEN [json_calls |-> 0, out |-> Return(PyNone)]
    ELSE IF text # ""
         THEN [json_calls |-> 1,
               out |-> IF json_loads(text).tag = "raise"
                       THEN Raise("APIError", "Invalid JSON: " \o text)
                       ELSE json_loads(text)]
    ELSE [json_calls |-> 0, out |-> Return(PyNone)]

\* What Client._request makes of a response that passed the status checks.
Client_request_body(method, text) ==
    IF method = "DELETE" THEN [json_calls |-> 0, out |-> Return(PyNone)]
    ELSE IF text # "" THEN [json_calls |-> 1, out |-> json_loads(text)]
    ELSE [json_calls |-> 0, out |-> Return(PyNone)]

\* The one HTTP request Client._request sends.
HttpRequest(c, method, path, json) ==
    [method |-> method, url |-> c.base_url \o path,
     headers |-> Client_request_headers(c, NoHeaders), json |-> json,
     timeout |-> c.timeout, verify |-> c.verify]

\* Client._request sending the request a second time after a transport failure.
Client_request_retries(c, method, path, json, resp) ==
    LET req == HttpRequest(c, method, path, json)
        call == [method |-> method, path |-> path, wire |-> <<req>>, json_calls |-> 0]
        Ends(n, o) == [call EXCEPT !.json_calls = n] @@ [req_out |-> o, out |-> o]
    IN
    IF ~resp.ok
    THEN [Ends(0, TransportFailure(resp.failure)) EXCEPT !.wire = <<req, req>>]
    ELSE LET err == Client_request_classify(resp.status, path, resp.text) IN
         IF err # [tag |-> "none"]
         THEN Ends(0, err)
         ELSE LET b == Client_request_body(method, resp.text) IN
              Ends(b.json_calls, b.out)

\* Client._request(method, path, json=...) when the network answers resp:
\* its method and path, the requests sent, the number of json() calls, how
\* _request ends (req_out) and how the caller's call ends (out; the resource
\* clients rewrite it).
Client_request(c, method, path, json, resp) ==
    LET call == [method |-> method, path |-> path,
                 wire |-> <<HttpRequest(c, method, path, json)>>, json_calls |-> 0]
        Ends(n, o) == [call EXCEPT !.json_calls = n] @@ [req_out |-> o, out |-> o]
    IN
    IF ~resp.ok
    THEN Ends(0, TransportFailure(resp.failure))
    ELSE LET err == Client_request_classify(resp.status, path, resp.text) IN
         IF err # NoError
         THEN Ends(0, err)
         ELSE LET b == Client_request_body(method, resp.text) IN
              Ends(b.json_calls, b.out)

Client_get(c, path, resp) == Client_request(c, "GET", path, NoJson, resp)

Client_post(c, path, data, resp) == Client_request(c, "POST", path, data, resp)

Client_put(c, path, data, resp) == Client_request(c, "PUT", path, data, resp)

\* A _delete that reports every error of the request as a success.
Client_delete_swallows(c, path, resp) ==
    [Client_request(c, "DELETE", path, NoJson, resp) EXCEPT !.out = Return(PyNone)]

\* Client._delete drops what _request returns.
Client_delete(c, path, resp) ==
    LET r == Client_request(c, "DELETE", path, NoJson, resp) IN
    IF r.out.tag = "return" THEN [r EXCEPT !.out = Return(PyNone)] ELSE r

\* -------------------------------------------------------- resource clients

\* response.get(key, default) on what _request returned: a dict answers, any
\* other value (None, a list) has no attribute "get".
response_get(value, key, default) ==
    IF value.py = "dict"
    THEN Return(IF key \in DOMAIN value.items THEN value.items[key] ELSE default)
    ELSE Raise("AttributeError", "get")

\* "response = <request>; return response.get(key, default)"
GetField(r, key, default) ==
    IF r.out.tag = "return"
    THEN [r EXCEPT !.out = response_get(r.out.value, key, default)]
    ELSE r

\* "<request>" as a statement of a method that returns None.
Discard(r) ==
    IF r.out.tag = "return" THEN [r EXCEPT !.out = Return(PyNone)] ELSE r

\* base64.b64encode(kubeconfig).decode(), kept symbolic.
b64encode(bytes) == [py |-> "b64", of |-> bytes]

ClusterAPI_list(c, resp) ==
    GetField(Client_get(c, "/api/deploy/clusters", resp), "clusters", PyList(<<>>))

ClusterAPI_get(c, cluster_id, resp) ==
    Client_get(c, "/api/deploy/clusters/" \o cluster_id, resp)

ClusterAPI_bootstrap(c, kubeconfig, resp) ==
    LET payload == PyDict([k \in {"cluster"} |->
                      PyDict([j \in {"kubeconfig"} |-> b64encode(kubeconfig)])])
    IN GetField(Client_post(c, "/bootstrap", payload, resp), "clusterId", PyStr(""))

ClusterAPI_update_settings(c, cluster_id, settings, resp) ==
    Discard(Client_put(c, "/api/settings/cluster/" \o cluster_id, settings, resp))

ClusterAPI_get_settings(c, cluster_id, resp) ==
    Client_get(c, "/api/settings/cluster/" \o cluster_id, resp)

WorkspaceAPI_list(c, cluster_id, resp) ==
    GetField(Client_get(c, "/api/cluster/" \o cluster_id \o "/servers", resp),
             "servers", PyList(<<>>))

WorkspaceAPI_create(c, cluster_id, spec, resp) ==
    Client_post(c, "/api/cluster/" \o cluster_id \o "/workspaces", spec, resp)

WorkspaceAPI_get(c, cluster_id, name, resp) ==
    Client_get(c, "/api/cluster/" \o cluster_id \o "/workspaces/" \o name, resp)

\* A delete that reports a missing workspace as a success.
WorkspaceAPI_delete_idempotent(c, cluster_id, name, resp) ==
    LET r == Client_delete(c, "/api/cluster/" \o cluster_id \o "/workspaces/" \o name,
                           resp)
    IN IF r.out.tag = "raise" /\ r.out.cls = "NotFoundError"
       THEN [r EXCEPT !.out = Return(PyNone)]
       ELSE Discard(r)

WorkspaceAPI_delete(c, cluster_id, name, resp) ==
    Discard(Client_delete(c, "/api/cluster/" \o cluster_id \o "/workspaces/" \o name,
                          resp))

\* The logs request without its tail parameter.
WorkspaceAPI_logs_no_tail(c, cluster_id, name, tail_lines, resp) ==
    Client_get(c, "/api/cluster/" \o cluster_id \o "/workspaces/" \o name \o "/logs",
               resp)

WorkspaceAPI_logs(c, cluster_id, name, tail_lines, resp) ==
    Client_get(c, "/api/cluster/" \o cluster_id \o "/workspaces/" \o name
                  \o "/logs?tail=" \o IntToStr(tail_lines), resp)

DatabaseAPI_list(c, cluster_id, resp) ==
    Client_get(c, "/api/cluster/" \o cluster_id \o "/db", resp)

DatabaseAPI_create(c, cluster_id, name, description, resp) ==
    LET payload == PyDict([k \in {"name", "description"} |->
                      IF k = "name" THEN PyStr(name) ELSE PyStr(description)])
    IN Client_post(c, "/api/cluster/" \o cluster_id \o "/db", payload, resp)

DatabaseAPI_get(c, cluster_id, db_id, resp) ==
    Client_get(c, "/api/cluster/" \o cluster_id \o "/db/" \o db_id, resp)

DatabaseAPI_delete(c, cluster_id, db_id, resp) ==
    Discard(Client_delete(c, "/api/cluster/" \o cluster_id \o "/db/" \o db_id, resp))

DatabaseAPI_tables(c, cluster_id, db_id, resp) ==
    Client_get(c, "/api/cluster/" \o cluster_id \o "/db/" \o db_id \o "/tables", resp)

DatabaseAPI_create_table(c, cluster_id, db_id, table, resp) ==
    Discard(Client_post(c, "/api/cluster/" \o cluster_id \o "/db/" \o db_id
                           \o "/tables", table, resp))

DatabaseAPI_query(c, cluster_id, db_id, table, limit, resp) ==
    GetField(Client_get(c, "/api/cluster/" \o cluster_id \o "/db/" \o db_id
                           \o "/tables/" \o table \o "/rows?limit="
                           \o IntToStr(limit), resp),
             "rows", PyList(<<>>))

DatabaseAPI_insert(c, cluster_id, db_id, table, rows, resp) ==
    LET payload == PyDict([k \in {"rows"} |-> rows])
    IN GetField(Client_post(c, "/api/cluster/" \o cluster_id \o "/db/" \o db_id
                               \o "/tables/" \o table \o "/rows", payload, resp),
                "ids", PyList(<<>>))

HealthAPI_global_health(c, resp) == Client_get(c, "/api/health", resp)

HealthAPI_cluster(c, cluster_id, resp) ==
    Client_get(c, "/api/cluster/" \o cluster_id \o "/health", resp)

\* try: _get("/healthz"); return True / except Exception: return False
HealthAPI_status(c, resp) ==
    LET r == Client_get(c, "/healthz", resp) IN
    IF r.out.tag = "return"
    THEN [r EXCEPT !.out = Return(PyBool(TRUE))]
    ELSE IF IsInstance(r.out, "Exception")
         THEN [r EXCEPT !.out = Return(PyBool(FALSE))]
         ELSE r

\* ------------------------------------------------------------------ state

Kubeconfigs == {<<107, 56, 115>>}
Payloads == {PyDict([k \in {"name"} |-> PyStr("demo")])}
RowLists == {PyList(<<PyDict(EmptyItems)>>)}
Descriptions == {""}
Counts == {100}

NoCall == [op |-> "none"]

\* The parts of the state a specification does not use stay idle.
Idle == [on |-> FALSE]

Init ==
    /\ cfg \in {Client_init(b, t, DefaultTimeout, FALSE) : b \in BaseUrls, t \in Tokens}
    /\ calls = 0
    /\ requests = 0
    /\ decodes = 0
    /\ last = NoCall
    /\ svc = Idle
    /\ w = Idle
    /\ dash = Idle
    /\ cli = Idle
    /\ flow = Idle

\* One call of operation op with arguments args, answered by resp, ending as r.
Called(op, args, resp, r) ==
    /\ calls < MaxCalls
    /\ calls' = calls + 1
    /\ requests' = requests + Len(r.wire)
    /\ decodes' = decodes + r.json_calls
    /\ last' = [op |-> op, args |-> args, resp |-> resp] @@ r
    /\ UNCHANGED <<cfg, svc, w, dash, cli, flow>>

\* A direct call of Client._request, as _get/_post/_put make it.
Do_Client_request ==
    \E m \in Methods, p \in RawPaths, resp \in Responses :
        Called("Client._request", <<m, p>>, resp,
               Client_request(cfg, m, p, NoJson, resp))

Do_ClusterAPI_list ==
    \E resp \in Responses :
        Called("ClusterAPI.list", <<>>, resp,
               ClusterAPI_list(cfg, resp))

Do_ClusterAPI_get ==
    \E id \in ClusterIds, resp \in Responses :
        Called("ClusterAPI.get", <<id>>, resp,
               ClusterAPI_get(cfg, id, resp))

Do_ClusterAPI_bootstrap ==
    \E kc \in Kubeconfigs, resp \in Responses :
        Called("ClusterAPI.bootstrap", <<kc>>, resp,
               ClusterAPI_bootstrap(cfg, kc, resp))

Do_ClusterAPI_update_settings ==
    \E id \in ClusterIds, d \in Payloads, resp \in Responses :
        Called("ClusterAPI.update_settings", <<id, d>>, resp,
               ClusterAPI_update_settings(cfg, id, d, resp))

Do_ClusterAPI_get_settings ==
    \E id \in ClusterIds, resp \in Responses :
        Called("ClusterAPI.get_settings", <<id>>, resp,
               ClusterAPI_get_settings(cfg, id, resp))

Do_WorkspaceAPI_list ==
    \E id \in ClusterIds, resp \in Responses :
        Called("WorkspaceAPI.list", <<id>>, resp,
               WorkspaceAPI_list(cfg, id, resp))

Do_WorkspaceAPI_create ==
    \E id \in ClusterIds, d \in Payloads, resp \in Responses :
        Called("WorkspaceAPI.create", <<id, d>>, resp,
               WorkspaceAPI_create(cfg, id, d, resp))

Do_WorkspaceAPI_get ==
    \E id \in ClusterIds, n \in Names, resp \in Responses :
        Called("WorkspaceAPI.get", <<id, n>>, resp,
               WorkspaceAPI_get(cfg, id, n, resp))

Do_WorkspaceAPI_delete ==
    \E id \in ClusterIds, n \in Names, resp \in Responses :
        Called("WorkspaceAPI.delete", <<id, n>>, resp,
               WorkspaceAPI_delete(cfg, id, n, resp))

Do_WorkspaceAPI_logs ==
    \E id \in ClusterIds, n \in Names, k \in Counts, resp \in Responses :
        Called("WorkspaceAPI.logs", <<id, n, k>>, resp,
               WorkspaceAPI_logs(cfg, id, n, k, resp))

Do_DatabaseAPI_list ==
    \E id \in ClusterIds, resp \in Responses :
        Called("DatabaseAPI.list", <<id>>, resp,
               DatabaseAPI_list(cfg, id, resp))

Do_DatabaseAPI_create ==
    \E id \in ClusterIds, n \in Names, t \in Descriptions, resp \in Responses :
        Called("DatabaseAPI.create", <<id, n, t>>, resp,
               DatabaseAPI_create(cfg, id, n, t, resp))

Do_DatabaseAPI_get ==
    \E id \in ClusterIds, n \in Names, resp \in Responses :
        Called("DatabaseAPI.get", <<id, n>>, resp,
               DatabaseAPI_get(cfg, id, n, resp))

Do_DatabaseAPI_delete ==
    \E id \in ClusterIds, n \in Names, resp \in Responses :
        Called("DatabaseAPI.delete", <<id, n>>, resp,
               DatabaseAPI_delete(cfg, id, n, resp))

Do_DatabaseAPI_tables ==
    \E id \in ClusterIds, n \in Names, resp \in Responses :
        Called("DatabaseAPI.tables", <<id, n>>, resp,
               DatabaseAPI_tables(cfg, id, n, resp))

Do_DatabaseAPI_create_table ==
    \E id \in ClusterIds, n \in Names, d \in Payloads, resp \in Responses :
        Called("DatabaseAPI.create_table", <<id, n, d>>, resp,
               DatabaseAPI_create_table(cfg, id, n, d, resp))

Do_DatabaseAPI_query ==
    \E id \in ClusterIds, n \in Names, t \in Names, k \in Counts, resp \in Responses :
        Called("DatabaseAPI.query", <<id, n, t, k>>, resp,
               DatabaseAPI_query(cfg, id, n, t, k, resp))

Do_DatabaseAPI_insert ==
    \E id \in ClusterIds, n \in Names, t \in Names, d \in RowLists, resp \in Responses :
        Called("DatabaseAPI.insert", <<id, n, t, d>>, resp,
               DatabaseAPI_insert(cfg, id, n, t, d, resp))

Do_HealthAPI_global_health ==
    \E resp \in Responses :
        Called("HealthAPI.global_health", <<>>, resp,
               HealthAPI_global_health(cfg, resp))

Do_HealthAPI_cluster ==
    \E id \in ClusterIds, resp \in Responses :
        Called("HealthAPI.cluster", <<id>>, resp,
               HealthAPI_cluster(cfg, id, resp))

Do_HealthAPI_status ==
    \E resp \in Responses :
        Called("HealthAPI.status", <<>>, resp,
               HealthAPI_status(cfg, resp))

Next ==
    \/ Do_Client_request
    \/ Do_ClusterAPI_list
    \/ Do_ClusterAPI_get
    \/ Do_ClusterAPI_bootstrap
    \/ Do_ClusterAPI_update_settings
    \/ Do_ClusterAPI_get_settings
    \/ Do_WorkspaceAPI_list
    \/ Do_WorkspaceAPI_create
    \/ Do_WorkspaceAPI_get
    \/ Do_WorkspaceAPI_delete
    \/ Do_WorkspaceAPI_logs
    \/ Do_DatabaseAPI_list
    \/ Do_DatabaseAPI_create
    \/ Do_DatabaseAPI_get
    \/ Do_DatabaseAPI_delete
    \/ Do_DatabaseAPI_tables
    \/ Do_DatabaseAPI_create_table
    \/ Do_DatabaseAPI_query
    \/ Do_DatabaseAPI_insert
    \/ Do_HealthAPI_global_health
    \/ Do_HealthAPI_cluster
    \/ Do_HealthAPI_status

Spec == Init /\ [][Next]_vars

\* --------------------------------------------------- properties: _request

\* Some call has been made / was answered with a status / with a status < 400.
WasCalled == last.op # "none"
Answered == WasCalled /\ last.resp.ok
Succeeded == Answered /\ last.resp.status < 400

\* The decimal text of the statuses, written out.
StatusText(status) ==
    CASE status = 200 -> "200" [] status = 399 -> "399" [] status = 400 -> "400"
      [] status = 401 -> "401" [] status = 403 -> "403" [] status = 404 -> "404"
      [] status = 500 -> "500" [] OTHER -> "?"

\* C1: whatever the method and path, a 404 response makes Client._request raise
\* NotFoundError and a 401 or 403 response makes it raise UnauthorizedError; it
\* returns nothing and raises nothing else for these statuses.
C1_NotFoundAndUnauthorized ==
    Answered =>
        /\ last.resp.status = 404 =>
              last.req_out.tag = "raise" /\ last.req_out.cls = "NotFoundError"
        /\ last.resp.status \in {401, 403} =>
              last.req_out.tag = "raise" /\ last.req_out.cls = "UnauthorizedError"

C1_Witness ==
    /\ Answered
    /\ last.resp.status = 403
    /\ last.method = "DELETE"
    /\ last.req_out.tag = "raise"
    /\ last.req_out.cls = "UnauthorizedError"

\* C2: a status >= 400 other than 401, 403 and 404 makes Client._request raise
\* a plain APIError whose message holds the status code and the body text; a
\* status < 400 raises no APIError.
C2_GenericError ==
    Answered =>
        /\ (last.resp.status >= 400 /\ last.resp.status \notin {401, 403, 404}) =>
              /\ last.req_out.tag = "raise"
              /\ last.req_out.cls = "APIError"
              /\ Contains(last.req_out.msg, StatusText(last.resp.status))
              /\ Contains(last.req_out.msg, last.resp.text)
        /\ last.resp.status < 400 => ~IsInstance(last.req_out, "APIError")

C2_Witness ==
    /\ Answered
    /\ last.resp.status = 400
    /\ last.resp.text = "{bad"
    /\ last.req_out.tag = "raise"
    /\ last.req_out.cls = "APIError"
    /\ last.req_out.msg = "API error 400: {bad"

\* The error kind the status table gives a status >= 400.
KindOf(status) ==
    IF status = 404 THEN "NotFoundError"
    ELSE IF status \in {401, 403} THEN "UnauthorizedError"
    ELSE "APIError"

\* C3: a DELETE answered with a status < 400 returns None whatever the body and
\* never decodes it; a DELETE answered with a status >= 400 is classified as
\* any other request is.
C3_DeleteNeverDecodes ==
    (Answered /\ last.method = "DELETE") =>
        /\ last.resp.status < 400 =>
              last.req_out = Return(PyNone) /\ last.json_calls = 0
        /\ last.resp.status >= 400 =>
              /\ last.req_out.tag = "raise"
              /\ last.req_out.cls = KindOf(last.resp.status)

C3_Witness ==
    /\ Succeeded
    /\ last.method = "DELETE"
    /\ last.resp.text = "{bad"
    /\ last.req_out = Return(PyNone)
    /\ decodes = 0

\* C4: a GET, POST or PUT answered with a status < 400 returns None for an
\* empty body, without a decode error, and the decoded document for a body
\* that is valid JSON.
C4_SuccessBody ==
    (Succeeded /\ last.method \in {"GET", "POST", "PUT"}) =>
        /\ last.resp.text = "" =>
              last.req_out = Return(PyNone) /\ last.json_calls = 0
        /\ (last.resp.text # "" /\ json_loads(last.resp.text).tag = "return") =>
              last.req_out = json_loads(last.resp.text)
        /\ last.resp.text = "{\"clusterId\": \"c-1\"}" =>
              /\ last.req_out.tag = "return"
              /\ last.req_out.value.py = "dict"
              /\ last.req_out.value.items["clusterId"] = PyStr("c-1")

C4_Witness ==
    /\ Succeeded
    /\ last.method = "PUT"
    /\ last.resp.text = ""
    /\ last.req_out = Return(PyNone)

\* The body is non-empty and is not a JSON document.
Malformed == last.resp.text # "" /\ json_loads(last.resp.text).tag = "raise"

\* C5: a GET, POST or PUT answered with a status < 400 and a non-empty body
\* that is not valid JSON ends in an error; Client._request returns nothing.
C5_MalformedBodyRaises ==
    (Succeeded /\ last.method \in {"GET", "POST", "PUT"} /\ Malformed) =>
        last.req_out.tag = "raise"

C5_Witness ==
    /\ Succeeded
    /\ last.method = "GET"
    /\ last.resp.status = 200
    /\ Malformed
    /\ last.req_out.tag = "raise"

\* C6, as stated: the error raised for a malformed body on a status < 400 is an
\* error of the APIError hierarchy.
C6_DecodeErrorIsAPIError ==
    (Succeeded /\ last.method \in {"GET", "POST", "PUT"} /\ Malformed) =>
        IsInstance(last.req_out, "APIError")

\* C6, amended: the error raised for a malformed body on a status < 400 is the
\* JSON parser's own json.JSONDecodeError (a ValueError), which is outside the
\* APIError hierarchy: a caller that handles APIError does not handle it.
C6_DecodeErrorIsParserError ==
    (Succeeded /\ last.method \in {"GET", "POST", "PUT"} /\ Malformed) =>
        /\ last.req_out.tag = "raise"
        /\ last.req_out.cls = "json.JSONDecodeError"
        /\ IsInstance(last.req_out, "ValueError")
        /\ ~IsInstance(last.req_out, "APIError")

C6_Witness ==
    /\ Succeeded
    /\ last.method = "POST"
    /\ Malformed
    /\ last.req_out.tag = "raise"
    /\ last.req_out.cls = "json.JSONDecodeError"
    /\ last.json_calls = 1

\* C7: a call that obtained no HTTP status ends in a transport error and never
\* in NotFoundError, UnauthorizedError or APIError; a call that obtained a
\* status never ends in a transport error.
C7_TransportDisjoint ==
    WasCalled =>
        /\ ~last.resp.ok =>
              /\ IsInstance(last.req_out, "httpx.TransportError")
              /\ ~IsInstance(last.req_out, "APIError")
        /\ last.resp.ok => ~IsInstance(last.req_out, "httpx.TransportError")

C7_Witness ==
    /\ WasCalled
    /\ ~last.resp.ok
    /\ last.resp.failure = "tls"
    /\ IsInstance(last.req_out, "httpx.TransportError")

\* ------------------------------------------- properties: resource clients

\* The last call was an operation of a resource client.
ResourceCall == WasCalled /\ last.op # "Client._request"

\* C8, as stated: whenever the Client._request call of a resource-client
\* operation raises, the operation raises that same error.
C8_NoOperationSwallows ==
    (ResourceCall /\ last.req_out.tag = "raise") => last.out = last.req_out

\* C8, amended: every operation of ClusterAPI, WorkspaceAPI and DatabaseAPI and
\* HealthAPI.global_health and HealthAPI.cluster raise the error their
\* Client._request call raised, unchanged; HealthAPI.status catches every
\* error of its request and returns False.
C8_OnlyStatusSwallows ==
    (ResourceCall /\ last.req_out.tag = "raise") =>
        IF last.op = "HealthAPI.status"
        THEN last.out = Return(PyBool(FALSE))
        ELSE last.out = last.req_out

C8_Witness ==
    /\ ResourceCall
    /\ last.op = "WorkspaceAPI.delete"
    /\ last.resp.ok
    /\ last.resp.status = 404
    /\ last.out.tag = "raise"
    /\ last.out.cls = "NotFoundError"
    /\ last.out = last.req_out

\* C9: every call of an operation issues exactly one HTTP request, whether it
\* succeeds or fails, so n calls issue n requests; ClusterAPI.list returns the
\* clusters of its own response, whatever an earlier call returned.
C9_OneRequestPerCall ==
    /\ requests = calls
    /\ WasCalled => Len(last.wire) = 1
    /\ (last.op = "ClusterAPI.list" /\ Succeeded) =>
          /\ last.resp.text \in {"{}", "{\"clusters\": []}"} =>
                last.out = Return(PyList(<<>>))
          /\ last.resp.text = "{\"clusters\": [{\"id\": \"c1\"}]}" =>
                last.out = Return(PyList(<<PyDict([j \in {"id"} |-> PyStr("c1")])>>))

C9_Witness ==
    /\ calls = 2
    /\ requests = 2
    /\ last.op = "ClusterAPI.list"
    /\ ~last.resp.ok
    /\ last.out.tag = "raise"

\* C10: when POST /bootstrap is answered with a status < 400, ClusterAPI.bootstrap
\* returns the cluster id the response carries, and the empty string, without
\* an error, when the response (an empty body or a JSON document) carries none.
C10_BootstrapIdOrEmpty ==
    (last.op = "ClusterAPI.bootstrap" /\ Succeeded /\ ~Malformed) =>
        IF last.resp.text = "{\"clusterId\": \"c-1\"}"
        THEN last.out = Return(PyStr("c-1"))
        ELSE last.out = Return(PyStr(""))

\* The body is empty or a JSON object.
EmptyOrObject ==
    \/ last.resp.text = ""
    \/ /\ json_loads(last.resp.text).tag = "return"
       /\ json_loads(last.resp.text).value.py = "dict"

\* C11: for every response with a status < 400 to GET /api/deploy/clusters (an
\* empty body or a JSON object), ClusterAPI.list returns a list and raises no
\* error; a response with no clusters yields the empty list.
C11_ListReturnsSequence ==
    (last.op = "ClusterAPI.list" /\ Succeeded /\ EmptyOrObject) =>
        /\ last.out.tag = "return"
        /\ last.out.value.py = "list"
        /\ last.resp.text \in {"", "{}", "{\"clusters\": []}"} =>
              last.out = Return(PyList(<<>>))

\* ------------------------------------------- a service keeping workspaces

\* Calls made to the service in one behaviour.
MaxSvcCalls == 3

SvcNames == {"demo", "test"}

\* The document the service returns for workspace name.
WorkspaceDoc(name) == "{\"name\": \"" \o name \o "\"}"

\* The service's answers: a workspace that does not exist is answered 404.
Service_create(store, name) == [ok |-> TRUE, status |-> 200, text |-> WorkspaceDoc(name)]

Service_get(store, name) ==
    IF name \in store
    THEN [ok |-> TRUE, status |-> 200, text |-> WorkspaceDoc(name)]
    ELSE [ok |-> TRUE, status |-> 404, text |-> "not found"]

Service_delete(store, name) ==
    IF name \in store
    THEN [ok |-> TRUE, status |-> 200, text |-> ""]
    ELSE [ok |-> TRUE, status |-> 404, text |-> "not found"]

SvcInit ==
    /\ cfg \in {Client_init(b, t, DefaultTimeout, FALSE) : b \in BaseUrls, t \in Tokens}
    /\ calls = 0
    /\ requests = 0
    /\ decodes = 0
    /\ last = NoCall
    /\ svc = [on |-> TRUE, store |-> {}, hist |-> <<>>]
    /\ w = Idle
    /\ dash = Idle
    /\ cli = Idle
    /\ flow = Idle

\* One workspace call against the service: the store after it, and the call,
\* with whether the workspace existed when it was made, added to the history.
SvcCalled(op, name, store2, r) ==
    /\ Len(svc.hist) < MaxSvcCalls
    /\ svc' = [svc EXCEPT !.store = store2,
                          !.hist = Append(@, [op |-> op, name |-> name,
                                              existed |-> name \in svc.store,
                                              out |-> r.out])]
    /\ calls' = calls + 1
    /\ requests' = requests + Len(r.wire)
    /\ decodes' = decodes + r.json_calls
    /\ UNCHANGED <<cfg, last, w, dash, cli, flow>>

Svc_WorkspaceAPI_create ==
    \E id \in ClusterIds, n \in SvcNames :
        SvcCalled("create", n, svc.store \cup {n},
                  WorkspaceAPI_create(cfg, id,
                      PyDict([k \in {"name", "image"} |->
                                 IF k = "name" THEN PyStr(n) ELSE PyStr("nginx:alpine")]),
                      Service_create(svc.store, n)))

Svc_WorkspaceAPI_get ==
    \E id \in ClusterIds, n \in SvcNames :
        SvcCalled("get", n, svc.store,
                  WorkspaceAPI_get(cfg, id, n, Service_get(svc.store, n)))

Svc_WorkspaceAPI_delete ==
    \E id \in ClusterIds, n \in SvcNames :
        SvcCalled("delete", n, svc.store \ {n},
                  WorkspaceAPI_delete(cfg, id, n, Service_delete(svc.store, n)))

SvcNext ==
    \/ Svc_WorkspaceAPI_create
    \/ Svc_WorkspaceAPI_get
    \/ Svc_WorkspaceAPI_delete

SvcSpec == SvcInit /\ [][SvcNext]_vars

\* The call raised NotFoundError.
RaisedNotFound(h) == h.out.tag = "raise" /\ h.out.cls = "NotFoundError"

\* C12: against a service that answers 404 for a workspace that does not
\* exist, a get after create and delete raises NotFoundError, and a delete or
\* get of a workspace that does not exist (a repeated delete included) raises
\* NotFoundError: the 404 of a delete never becomes a successful return.
C12_DeletedIsNotFound ==
    svc.on =>
        /\ \A i \in 1..Len(svc.hist) :
              (svc.hist[i].op \in {"get", "delete"} /\ ~svc.hist[i].existed) =>
                  RaisedNotFound(svc.hist[i])
        /\ \A i \in 1..(Len(svc.hist) - 2) :
              ( /\ svc.hist[i].op = "create"
                /\ svc.hist[i + 1].op = "delete"
                /\ svc.hist[i + 2].op = "get"
                /\ svc.hist[i + 1].name = svc.hist[i].name
                /\ svc.hist[i + 2].name = svc.hist[i].name ) =>
                  /\ svc.hist[i + 1].out = Return(PyNone)
                  /\ RaisedNotFound(svc.hist[i + 2])
        /\ \A i \in 1..(Len(svc.hist) - 1) :
              ( /\ svc.hist[i].op = "delete"
                /\ svc.hist[i + 1].op = "delete"
                /\ svc.hist[i + 1].name = svc.hist[i].name ) =>
                  RaisedNotFound(svc.hist[i + 1])

C12_Witness ==
    /\ svc.on
    /\ Len(svc.hist) = 3
    /\ svc.hist[1].op = "create" /\ svc.hist[1].name = "demo"
    /\ svc.hist[2].op = "delete" /\ svc.hist[2].name = "demo"
    /\ svc.hist[2].out = Return(PyNone)
    /\ svc.hist[3].op = "get" /\ svc.hist[3].name = "demo"
    /\ RaisedNotFound(svc.hist[3])

\* ------------------------------------------------------ the polling waiters

\* The poll interval of both waiters, in seconds (time.sleep(5)).
PollInterval == 5

\* The iterations of wait_workspace's loop: for _ in range(60).
CliIterations == 60

\* The runner's max_wait and the timeout of its status request, in seconds.
RunnerMaxWait == 120
RunnerRequestTimeout == 10

\* Requests of one wait that take their whole timeout.
MaxSlow == 1

\* The values of --timeout tried (the default is "5m").
TimeoutOpts == {"5m", "10s"}

\* The values of max_wait tried: the runner's own, and two short ones, one of
\* them no multiple of the interval.
MaxWaits == {RunnerMaxWait, 10, 12}

\* What the service answers to a status request: the workspace with a status,
\* an error status, a body that is not JSON, or nothing (no connection).
WaitResponses ==
    {[ok |-> TRUE, status |-> 200, text |-> t] :
        t \in {"{\"status\": \"Pending\"}", "{\"status\": \"Running\"}",
               "{\"status\": \"Failed\"}", "{bad"}}
    \cup {[ok |-> TRUE, status |-> 404, text |-> "not found"],
          [ok |-> TRUE, status |-> 401, text |-> ""],
          [ok |-> TRUE, status |-> 500, text |-> "boom"],
          [ok |-> FALSE, failure |-> "refused"]}

NoAnswer == [ok |-> FALSE, failure |-> "none"]

\* A wait that has not polled yet.
WaitStart(kind, name, timeout, max_wait) ==
    [on |-> TRUE, kind |-> kind, name |-> name, timeout |-> timeout,
     max_wait |-> max_wait, pc |-> "loop", state |-> "Polling", exit |-> "running",
     polls |-> 0, sleeps |-> 0, i |-> 0, waited |-> 0,
     printed |-> <<"Waiting for " \o name \o " to be ready...">>, note |-> "",
     served |-> 0, prev |-> NoAnswer, last |-> NoAnswer, allPending |-> TRUE,
     elapsed |-> 0, pollStart |-> 0, slow |-> 0]

\* wait_workspace: "except Exception as e: print Error: e; raise click.Abort()".
wait_workspace_except(wt, exc) ==
    [wt EXCEPT !.pc = "done",
               !.state = IF @ = "Polling" THEN "Error" ELSE @,
               !.printed = Append(@, "Error: " \o exc.msg),
               !.exit = "Abort"]

\* wait_workspace: what the loop does with the status it read.
wait_workspace_check(status) ==
    IF status = PyStr("Running") THEN "ready"
    ELSE IF status = PyStr("Failed") THEN "failed"
    ELSE "sleep"

\* The "Failed" branch without its "raise click.Abort()": the loop goes on.
wait_workspace_failed_no_abort(wt) ==
    [wt EXCEPT !.state = "Failed",
               !.printed = Append(@, "Workspace failed"),
               !.sleeps = @ + 1]

\* wait_workspace: "elif status == 'Failed': print; raise click.Abort()", the
\* Abort caught by the function's own handler.
wait_workspace_failed(wt) ==
    wait_workspace_except(
        [wt EXCEPT !.state = "Failed",
                   !.printed = Append(@, "Workspace failed")],
        Raise("click.Abort", ""))

\* wait_workspace: one iteration of the loop, its status request answered resp.
wait_workspace_poll(c, wt, cluster_id, resp) ==
    LET r == WorkspaceAPI_get(c, cluster_id, wt.name, resp)
        polled == [wt EXCEPT !.polls = @ + Len(r.wire), !.i = @ + 1]
    IN
    IF r.out.tag = "raise" THEN wait_workspace_except(polled, r.out)
    ELSE LET st == response_get(r.out.value, "status", PyStr("")) IN
         IF st.tag = "raise" THEN wait_workspace_except(polled, st)
         ELSE LET todo == wait_workspace_check(st.value) IN
              IF todo = "ready"
              THEN [polled EXCEPT !.pc = "done", !.state = "Ready",
                                  !.printed = Append(@, "Workspace is ready"),
                                  !.exit = "return"]
              ELSE IF todo = "failed"
              THEN wait_workspace_failed(polled)
              ELSE [polled EXCEPT !.sleeps = @ + 1]

\* wait_workspace: the loop ran out.
wait_workspace_timeout(wt) ==
    wait_workspace_except(
        [wt EXCEPT !.state = "TimedOut",
                   !.printed = Append(@, "Timeout waiting for workspace")],
        Raise("click.Abort", ""))

\* The loop condition written "waited <= max_wait".
Runner_wait_continues_inclusive(waited, max_wait) == waited <= max_wait

\* _wait_for_workspace_ready: "while waited < max_wait".
Runner_wait_continues(waited, max_wait) == waited < max_wait

\* The wait ending on the status "Ready" instead of "Running".
Runner_wait_is_ready_other_word(status) == status = PyStr("Ready")

\* _wait_for_workspace_ready: the status that ends the wait.
Runner_wait_is_ready(status) == status = PyStr("Running")

\* _wait_for_workspace_ready: "except requests.exceptions.RequestException".
Runner_wait_catches(exc) == IsInstance(exc, "requests.RequestException")

\* _wait_for_workspace_ready: "time.sleep(5); waited += 5".
Runner_wait_sleep(wt, note) ==
    [wt EXCEPT !.note = note, !.sleeps = @ + 1, !.waited = @ + PollInterval]

\* _wait_for_workspace_ready: an exception leaves the function.
Runner_wait_raises(wt, exc) ==
    [wt EXCEPT !.pc = "done", !.state = "Error", !.exit = "raise " \o exc.cls]

\* What a status code other than 200 makes of the poll.
Runner_wait_not_200(wt, status) ==
    Runner_wait_sleep(wt, "Failed to get status: " \o IntToStr(status))

\* _wait_for_workspace_ready: one iteration of the loop, its status request
\* answered resp; decode_exc is the class response.json() raises on a body that
\* is not JSON, which depends on the requests release installed.
Runner_wait_poll(wt, resp, decode_exc) ==
    LET polled == [wt EXCEPT !.polls = @ + 1]
        Failing(exc) ==
            IF Runner_wait_catches(exc)
            THEN Runner_wait_sleep(polled, "Request failed: " \o exc.msg)
            ELSE Runner_wait_raises(polled, exc)
    IN
    IF ~resp.ok THEN Failing(Raise("requests.ConnectionError", resp.failure))
    ELSE IF resp.status = 200
    THEN LET doc == json_loads(resp.text) IN
         IF doc.tag = "raise" THEN Failing(Raise(decode_exc, resp.text))
         ELSE LET st == response_get(doc.value, "status", PyNone) IN
              IF st.tag = "raise" THEN Failing(st)
              ELSE IF Runner_wait_is_ready(st.value)
              THEN [polled EXCEPT !.pc = "done", !.state = "Ready",
                      !.printed = Append(@, "Workspace " \o wt.name \o " is running!"),
                      !.exit = "True"]
              ELSE Runner_wait_sleep(polled,
                      "Status: " \o (IF st.value.py = "str" THEN st.value.s ELSE "None")
                      \o " (waited " \o IntToStr(wt.waited) \o "s)")
    ELSE Runner_wait_not_200(polled, resp.status)

\* _wait_for_workspace_ready: the loop condition failed.
Runner_wait_timeout(wt) ==
    [wt EXCEPT !.pc = "done", !.state = "TimedOut", !.exit = "False",
               !.printed = Append(@, "Workspace " \o wt.name
                   \o " did not become ready within " \o IntToStr(wt.max_wait) \o "s")]

WaitInit ==
    /\ cfg \in {Client_init(b, t, DefaultTimeout, FALSE) : b \in BaseUrls, t \in Tokens}
    /\ calls = 0
    /\ requests = 0
    /\ decodes = 0
    /\ last = NoCall
    /\ svc = Idle
    /\ w \in {WaitStart("cli", "demo", t, 0) : t \in TimeoutOpts}
             \cup {WaitStart("runner", "demo", "", m) : m \in MaxWaits}
    /\ dash = Idle
    /\ cli = Idle
    /\ flow = Idle

\* The answer resp, which took d seconds, served to the waiter; wt is the
\* waiter after the iteration.  The clock advances by the request and the sleep.
Polled(resp, d, wt) ==
    /\ w' = [wt EXCEPT !.served = @ + 1, !.prev = w.last, !.last = resp,
                       !.allPending = (w.served = 0
                                       \/ (w.allPending
                                           /\ w.last.ok
                                           /\ w.last.text = "{\"status\": \"Pending\"}")),
                       !.pollStart = w.elapsed,
                       !.elapsed = @ + d + PollInterval * (wt.sleeps - w.sleeps),
                       !.slow = IF d > 0 THEN @ + 1 ELSE @]
    /\ UNCHANGED <<cfg, calls, requests, decodes, last, svc, dash, cli, flow>>

Wait_cli_poll ==
    /\ w.on /\ w.kind = "cli" /\ w.pc = "loop" /\ w.i < CliIterations
    /\ \E id \in ClusterIds, resp \in WaitResponses, d \in {0, cfg.timeout} :
          /\ d > 0 => w.slow < MaxSlow
          /\ Polled(resp, d, wait_workspace_poll(cfg, w, id, resp))

Wait_cli_timeout ==
    /\ w.on /\ w.kind = "cli" /\ w.pc = "loop" /\ ~(w.i < CliIterations)
    /\ w' = wait_workspace_timeout(w)
    /\ UNCHANGED <<cfg, calls, requests, decodes, last, svc, dash, cli, flow>>

Wait_runner_poll ==
    /\ w.on /\ w.kind = "runner" /\ w.pc = "loop"
    /\ Runner_wait_continues(w.waited, w.max_wait)
    /\ \E resp \in WaitResponses, d \in {0, RunnerRequestTimeout},
          exc \in {"requests.JSONDecodeError", "json.JSONDecodeError"} :
          /\ d > 0 => w.slow < MaxSlow
          /\ Polled(resp, d, Runner_wait_poll(w, resp, exc))

Wait_runner_timeout ==
    /\ w.on /\ w.kind = "runner" /\ w.pc = "loop"
    /\ ~Runner_wait_continues(w.waited, w.max_wait)
    /\ w' = Runner_wait_timeout(w)
    /\ UNCHANGED <<cfg, calls, requests, decodes, last, svc, dash, cli, flow>>

WaitNext ==
    \/ Wait_cli_poll
    \/ Wait_cli_timeout
    \/ Wait_runner_poll
    \/ Wait_runner_timeout

WaitSpec == WaitInit /\ [][WaitNext]_vars

\* ------------------------------------------------- properties: the waiters

\* The kinds of answer of a status request.
IsStatus(resp, st) ==
    resp.ok /\ resp.status = 200 /\ resp.text = "{\"status\": \"" \o st \o "\"}"
IsTransport(resp) == ~resp.ok /\ resp # NoAnswer
IsHttpError(resp) == resp.ok /\ resp.status >= 400
IsUndecodable(resp) == resp.ok /\ resp.status = 200 /\ resp.text = "{bad"

Polls == w.on /\ w.served > 0

\* The wait went on after its last poll: it is still polling, or its polls
\* ran out afterwards.
KeptPolling ==
    \/ w.state = "Polling" /\ w.pc = "loop"
    \/ w.state = "TimedOut" /\ w.pc = "done"

\* The last line the wait printed.
LastLine == w.printed[Len(w.printed)]

\* C13: in both waiters the wait is Ready exactly at the first poll answered
\* "Running", never before; answered Pending, Pending, Running it makes three
\* polls and is Ready at the third.
C13_ReadyAtFirstRunning ==
    Polls =>
        /\ w.state = "Ready" =>
              IsStatus(w.last, "Running") /\ ~IsStatus(w.prev, "Running")
        /\ IsStatus(w.last, "Running") => w.state = "Ready" /\ w.pc = "done"
        /\ (w.served = 3 /\ w.allPending /\ IsStatus(w.last, "Running")) =>
              w.state = "Ready" /\ w.polls = 3
        /\ (w.served = 2 /\ w.allPending /\ IsStatus(w.last, "Pending")) =>
              w.state # "Ready" /\ w.polls = 2

C13_Witness ==
    /\ Polls
    /\ w.kind = "runner"
    /\ w.served = 3
    /\ w.allPending
    /\ IsStatus(w.prev, "Pending")
    /\ IsStatus(w.last, "Running")
    /\ w.state = "Ready"
    /\ w.polls = 3

\* C14: in both waiters a poll answered "Failed" ends the wait at that poll in
\* the state Failed, which is reported differently from TimedOut.
C14_FailedEndsWait ==
    (Polls /\ IsStatus(w.last, "Failed")) =>
        /\ w.pc = "done"
        /\ w.state = "Failed"
        /\ LastLine # "Timeout waiting for workspace"

\* The seconds a --timeout value stands for.
Seconds(opt) ==
    CASE opt = "5m" -> 300 [] opt = "10s" -> 10 [] OTHER -> 0

\* The maximum wait the caller specified.
CallerMax == IF w.kind = "cli" THEN Seconds(w.timeout) ELSE w.max_wait

\* C15: a wait polls only while the wall-clock time since it started, the time
\* spent in status requests included, has not exceeded the maximum the caller
\* specified (--timeout for wait_workspace), and is TimedOut once it has.
C15_TimedOutAtDeadline ==
    w.on =>
        /\ w.served > 0 => w.pollStart <= CallerMax
        /\ w.state = "TimedOut" => w.elapsed >= CallerMax

\* The polls a counter-based loop makes: ceil(M / I).
PollLimit ==
    IF w.kind = "cli" THEN CliIterations
    ELSE (w.max_wait + PollInterval - 1) \div PollInterval

C17_TransportKeepsPolling ==
    Polls =>
        /\ IsTransport(w.last) => KeptPolling
        /\ (IsTransport(w.prev) /\ IsStatus(w.last, "Running")) => w.state = "Ready"

\* C18: a status request answered with an HTTP-level error, or with
\* a body that does not decode, ends the wait at that poll with the error.
C18_HttpErrorEndsWait ==
    (Polls /\ (IsHttpError(w.last) \/ IsUndecodable(w.last))) =>
        w.pc = "done" /\ w.state = "Error"

\* C19: once a wait is Ready, Failed or TimedOut it makes no further status
\* request and no further sleep, and what it reported does not change.
C19_TerminalIsFinal ==
    [][ (w.on /\ w.state \in {"Ready", "Failed", "TimedOut"}) =>
            /\ w'.polls = w.polls
            /\ w'.sleeps = w.sleeps
            /\ w'.state = w.state
            /\ w'.exit = w.exit
            /\ w'.printed = w.printed ]_vars

C19_Witness ==
    /\ Polls
    /\ w.kind = "cli"
    /\ w.state = "Failed"
    /\ w.pc = "done"
    /\ w.exit = "Abort"
    /\ IsStatus(w.last, "Failed")

\* ------------------------------------------------ the dashboard (cli/viz.py)

\* What the service answers to the three queries of one refresh.
DashListResponses ==
    { [ok |-> TRUE, status |-> 200, text |-> "{\"clusters\": []}"],
      [ok |-> TRUE, status |-> 200, text |-> "{\"clusters\": [{\"id\": \"c1\"}]}"],
      [ok |-> TRUE, status |-> 200,
       text |-> "{\"clusters\": [{\"id\": \"c1\", \"name\": \"alpha\"}, {\"id\": \"cluster-0123456789\"}]}"],
      [ok |-> TRUE, status |-> 200,
       text |-> "{\"clusters\": [{\"id\": \"c1\", \"name\": \"alpha\"}, {\"id\": \"cluster-0123456789\"}, {\"name\": \"gamma\"}]}"],
      [ok |-> TRUE, status |-> 200, text |-> "{\"clusters\": [{\"name\": \"gamma\"}]}"],
      [ok |-> TRUE, status |-> 200, text |-> ""],
      [ok |-> TRUE, status |-> 500, text |-> "boom"],
      [ok |-> TRUE, status |-> 502, text |-> "upstream: Connection refused"] }
    \cup [ok : {FALSE}, failure : Failures]

DashHealthResponses ==
    { [ok |-> TRUE, status |-> 200, text |-> "{\"k8sReachable\": true}"],
      [ok |-> TRUE, status |-> 200, text |-> "{\"k8sReachable\": false}"],
      [ok |-> TRUE, status |-> 200,
       text |-> "{\"k8sReachable\": false, \"recommendedAction\": \"restart agent\"}"],
      [ok |-> TRUE, status |-> 200, text |-> "{}"],
      [ok |-> TRUE, status |-> 200, text |-> ""],
      [ok |-> TRUE, status |-> 200, text |-> "{bad"],
      [ok |-> TRUE, status |-> 404, text |-> "not found"],
      [ok |-> TRUE, status |-> 500, text |-> "boom"],
      [ok |-> FALSE, failure |-> "timeout"] }

DashWorkspaceResponses ==
    { [ok |-> TRUE, status |-> 200, text |-> "{\"servers\": []}"],
      [ok |-> TRUE, status |-> 200,
       text |-> "{\"servers\": [{\"name\": \"demo\", \"image\": \"nginx:alpine\", \"status\": \"Running\"}]}"],
      [ok |-> TRUE, status |-> 200, text |-> ""],
      [ok |-> TRUE, status |-> 403, text |-> ""],
      [ok |-> FALSE, failure |-> "refused"] }

\* The --cluster option: absent, or a cluster id.
FocusClusters == {PyNone, PyStr("c9")}

PyInt(n) == [py |-> "int", n |-> n]

\* bool(value)
Truthy(v) ==
    CASE v.py = "bool" -> v.b
      [] v.py = "str" -> v.s # ""
      [] v.py = "list" -> Len(v.items) > 0
      [] v.py = "dict" -> DOMAIN v.items # {}
      [] v.py = "int" -> v.n # 0
      [] OTHER -> FALSE

\* str(value) of the values a table cell shows.
py_str(v) ==
    CASE v.py = "str" -> v.s
      [] v.py = "int" -> IntToStr(v.n)
      [] v.py = "bool" -> IF v.b THEN "True" ELSE "False"
      [] OTHER -> "None"

\* s[:n]
Take(s, n) == IF Len(s) <= n THEN s ELSE SubSeq(s, 1, n)

\* value[:n] for a str; any other value cannot be sliced.
py_slice(v, n) ==
    IF v.py = "str" THEN Return(PyStr(Take(v.s, n)))
    ELSE Raise("TypeError", "not subscriptable")

EmptyPanel == [kind |-> "none", title |-> "", text |-> "", rows |-> <<>>]
TextPanel(title, text) == [kind |-> "text", title |-> title, text |-> text, rows |-> <<>>]
TablePanel(title, rows) == [kind |-> "table", title |-> title, text |-> "", rows |-> rows]

\* generate_dashboard: the layout with its header, before the first query.
DashStart(focus) ==
    [on |-> TRUE, pc |-> "list", focus |-> focus,
     clusters |-> PyList(<<>>), connection_error |-> FALSE,
     idx |-> 0, rows |-> <<>>,
     header |-> "MetaGuildNet Dashboard",
     clusters_panel |-> EmptyPanel, workspaces_panel |-> EmptyPanel,
     footer |-> "", exit |-> "running",
     reqs |-> <<>>, listed |-> NoAnswer, answers |-> <<>>]

\* The first two cells of a cluster's row: c.get("id", "")[:12] + "...",
\* c.get("name", c.get("id", "")).
generate_dashboard_cells(cl) ==
    LET id == response_get(cl, "id", PyStr("")) IN
    IF id.tag = "raise" THEN id
    ELSE LET short == py_slice(id.value, 12) IN
         IF short.tag = "raise" THEN short
         ELSE Return([id |-> short.value.s \o "...",
                      name |-> py_str(response_get(cl, "name", id.value).value)])

\* The status cell for the health document of a reachable query.
generate_dashboard_status(health) ==
    LET reach == response_get(health, "k8sReachable", PyNone) IN
    IF reach.tag = "raise" THEN reach
    ELSE IF Truthy(reach.value) THEN Return("[green]Healthy[/green]")
    ELSE LET action == response_get(health, "recommendedAction", PyNone).value IN
         Return(IF Truthy(action)
                THEN "[red]Unhealthy[/red]\n[dim]" \o py_str(action) \o "[/dim]"
                ELSE "[red]Unhealthy[/red]")

\* The row of a cluster when the try block around its health query has no
\* except clause: what the query raised leaves the loop.
generate_dashboard_row_no_except(cl, health_out) ==
    IF health_out.tag = "raise" THEN health_out
    ELSE LET status == generate_dashboard_status(health_out.value)
             cells == generate_dashboard_cells(cl)
         IN IF status.tag = "raise" THEN status
            ELSE IF cells.tag = "raise" THEN cells
            ELSE Return(cells.value @@ [status |-> status.value])

\* generate_dashboard: the body of "for c in clusters", the health query
\* having ended as health_out: try: ... add_row(id, name, status) / except
\* Exception: add_row(id, name, "? Unknown").
generate_dashboard_row(cl, health_out) ==
    LET status == IF health_out.tag = "raise" THEN health_out
                  ELSE generate_dashboard_status(health_out.value)
        cells == generate_dashboard_cells(cl)
    IN IF cells.tag = "raise" THEN cells
       ELSE Return(cells.value @@
                   [status |-> IF status.tag = "raise"
                               THEN "[yellow]? Unknown[/yellow]"
                               ELSE status.value])

\* The clusters part without its except clauses: the error leaves
\* generate_dashboard.
generate_dashboard_clusters_except_absent(d, exc) ==
    [d EXCEPT !.pc = "done", !.exit = "raise " \o exc.cls]

\* generate_dashboard: the two except clauses around the clusters part.
generate_dashboard_clusters_except(d, exc) ==
    [d EXCEPT !.connection_error = TRUE,
              !.pc = "workspaces",
              !.clusters_panel =
                  IF IsInstance(exc, "ConnectionError")
                  THEN TextPanel("Connection Error",
                                 "GuildNet Host App not running\nError: " \o exc.msg)
                  ELSE IF Contains(exc.msg, "Connection refused")
                          \/ Contains(exc.msg, "Errno 61")
                  THEN TextPanel("Connection Error",
                                 "Cannot connect to GuildNet API\nError: " \o exc.msg)
                  ELSE TextPanel("Error", "Error loading clusters:\n" \o exc.msg)]

\* generate_dashboard: "clusters = client.clusters.list()" answered resp, and
\* the branch on "not clusters".
generate_dashboard_list(c, d, resp) ==
    LET r == ClusterAPI_list(c, resp)
        asked == [d EXCEPT !.reqs = @ \o r.wire, !.listed = resp]
    IN
    IF r.out.tag = "raise" THEN generate_dashboard_clusters_except(asked, r.out)
    ELSE IF ~Truthy(r.out.value)
    THEN [asked EXCEPT !.clusters = r.out.value,
                       !.pc = "workspaces",
                       !.clusters_panel =
                           TextPanel("Clusters", "No clusters registered yet")]
    ELSE [asked EXCEPT !.clusters = r.out.value, !.pc = "health"]

\* generate_dashboard: one iteration of "for c in clusters", the health query
\* answered resp; after the last one the table becomes the clusters panel.
generate_dashboard_health(c, d, resp) ==
    LET cl == d.clusters.items[d.idx + 1]
        id == response_get(cl, "id", PyStr(""))
        r == IF id.tag = "raise" THEN [wire |-> <<>>, out |-> id]
             ELSE HealthAPI_cluster(c, py_str(id.value), resp)
        asked == [d EXCEPT !.reqs = @ \o r.wire, !.answers = Append(@, resp)]
        row == generate_dashboard_row(cl, r.out)
    IN
    IF row.tag = "raise" THEN generate_dashboard_clusters_except(asked, row)
    ELSE LET rows == Append(d.rows, row.value)
             n == Len(d.clusters.items)
         IN IF d.idx + 1 < n
            THEN [asked EXCEPT !.idx = @ + 1, !.rows = rows]
            ELSE [asked EXCEPT !.idx = @ + 1, !.rows = rows,
                               !.pc = "workspaces",
                               !.clusters_panel =
                                   TablePanel("Clusters (" \o IntToStr(n) \o " total)",
                                              rows)]

\* The choice of the cluster without the --cluster option.
generate_dashboard_cluster_id_first(d) ==
    IF Truthy(d.clusters)
    THEN response_get(d.clusters.items[1], "id", PyStr(""))
    ELSE Return(PyNone)

\* generate_dashboard: the cluster whose workspaces are shown.
generate_dashboard_cluster_id(d) ==
    IF Truthy(d.focus) THEN Return(d.focus)
    ELSE IF Truthy(d.clusters)
    THEN response_get(d.clusters.items[1], "id", PyStr(""))
    ELSE Return(PyNone)

\* The row of one workspace.
generate_dashboard_ws_row(ws) ==
    LET st == response_get(ws, "status", PyStr("Unknown")) IN
    IF st.tag = "raise" THEN st
    ELSE LET image == py_slice(response_get(ws, "image", PyStr("")).value, 40)
             shown == CASE st.value = PyStr("Running") -> "[green]Running[/green]"
                        [] st.value = PyStr("Pending") -> "[yellow]Pending[/yellow]"
                        [] st.value = PyStr("Failed") -> "[red]Failed[/red]"
                        [] OTHER -> py_str(st.value)
         IN IF image.tag = "raise" THEN image
            ELSE Return([name |-> py_str(response_get(ws, "name", PyStr("")).value),
                         image |-> image.value.s,
                         status |-> shown,
                         ready |-> py_str(response_get(ws, "readyReplicas", PyInt(0)).value)])

\* The rows of the workspaces, or what the first bad workspace raised.
RECURSIVE generate_dashboard_ws_rows(_)
generate_dashboard_ws_rows(items) ==
    IF items = <<>> THEN Return(<<>>)
    ELSE LET row == generate_dashboard_ws_row(Head(items)) IN
         IF row.tag = "raise" THEN row
         ELSE LET rest == generate_dashboard_ws_rows(Tail(items)) IN
              IF rest.tag = "raise" THEN rest
              ELSE Return(<<row.value>> \o rest.value)

\* generate_dashboard: the footer.
generate_dashboard_footer(c, d) ==
    LET text == "API: " \o c.base_url \o " | Press Ctrl+C to exit | Refreshing every 5s" IN
    IF d.connection_error THEN "Not connected to GuildNet API | " \o text
    ELSE IF Truthy(d.clusters)
    THEN "Connected | " \o IntToStr(Len(d.clusters.items)) \o " cluster(s) | " \o text
    ELSE text

\* generate_dashboard: the end of the function.
generate_dashboard_return(c, d, panel) ==
    [d EXCEPT !.workspaces_panel = panel,
              !.footer = generate_dashboard_footer(c, d),
              !.pc = "done",
              !.exit = "return"]

\* generate_dashboard: the workspaces part when no request is made.
generate_dashboard_no_workspaces(c, d) ==
    IF d.connection_error
    THEN generate_dashboard_return(c, d, TextPanel("Workspaces", "Cannot load workspaces"))
    ELSE LET id == generate_dashboard_cluster_id(d) IN
         IF id.tag = "raise"
         THEN generate_dashboard_return(c, d,
                  TextPanel("Error", "Error loading workspaces:\n" \o id.msg))
         ELSE generate_dashboard_return(c, d,
                  TextPanel("Workspaces", "No clusters available"))

\* generate_dashboard: the workspaces part, the list of cluster_id answered resp.
generate_dashboard_workspaces(c, d, cluster_id, resp) ==
    LET r == WorkspaceAPI_list(c, py_str(cluster_id), resp)
        asked == [d EXCEPT !.reqs = @ \o r.wire]
        short == py_slice(cluster_id, 12)
        rows == IF r.out.tag = "raise" THEN r.out
                ELSE IF r.out.value.py # "list"
                THEN Raise("TypeError", "not iterable")
                ELSE generate_dashboard_ws_rows(r.out.value.items)
    IN
    IF rows.tag = "raise"
    THEN generate_dashboard_return(c, asked,
             TextPanel("Error", "Error loading workspaces:\n" \o rows.msg))
    ELSE IF short.tag = "raise"
    THEN generate_dashboard_return(c, asked,
             TextPanel("Error", "Error loading workspaces:\n" \o short.msg))
    ELSE IF rows.value = <<>>
    THEN generate_dashboard_return(c, asked,
             TextPanel("Workspaces",
                       "No workspaces in cluster\nCluster: " \o short.value.s \o "..."))
    ELSE generate_dashboard_return(c, asked,
             TablePanel("Workspaces (" \o IntToStr(Len(rows.value))
                            \o " total) - Cluster: " \o short.value.s \o "...",
                        rows.value))

DashInit ==
    /\ cfg \in {Client_init(b, t, DefaultTimeout, FALSE) : b \in BaseUrls, t \in Tokens}
    /\ calls = 0
    /\ requests = 0
    /\ decodes = 0
    /\ last = NoCall
    /\ svc = Idle
    /\ w = Idle
    /\ dash \in {DashStart(f) : f \in FocusClusters}
    /\ cli = Idle
    /\ flow = Idle

Dash_list ==
    /\ dash.on /\ dash.pc = "list"
    /\ \E resp \in DashListResponses : dash' = generate_dashboard_list(cfg, dash, resp)
    /\ UNCHANGED <<cfg, calls, requests, decodes, last, svc, w, cli, flow>>

Dash_health ==
    /\ dash.on /\ dash.pc = "health"
    /\ \E resp \in DashHealthResponses : dash' = generate_dashboard_health(cfg, dash, resp)
    /\ UNCHANGED <<cfg, calls, requests, decodes, last, svc, w, cli, flow>>

Dash_workspaces ==
    /\ dash.on /\ dash.pc = "workspaces"
    /\ ~dash.connection_error
    /\ LET id == generate_dashboard_cluster_id(dash) IN
          /\ id.tag = "return" /\ Truthy(id.value)
          /\ \E resp \in DashWorkspaceResponses :
                dash' = generate_dashboard_workspaces(cfg, dash, id.value, resp)
    /\ UNCHANGED <<cfg, calls, requests, decodes, last, svc, w, cli, flow>>

Dash_no_workspaces ==
    /\ dash.on /\ dash.pc = "workspaces"
    /\ \/ dash.connection_error
       \/ LET id == generate_dashboard_cluster_id(dash) IN
             id.tag = "raise" \/ ~Truthy(id.value)
    /\ dash' = generate_dashboard_no_workspaces(cfg, dash)
    /\ UNCHANGED <<cfg, calls, requests, decodes, last, svc, w, cli, flow>>

DashNext ==
    \/ Dash_list
    \/ Dash_health
    \/ Dash_workspaces
    \/ Dash_no_workspaces

DashSpec == DashInit /\ [][DashNext]_vars

\* ----------------------------------------------- properties: the dashboard

\* The id and name cells the table shows for the clusters of a list body.
ListedRows(text) ==
    CASE text = "{\"clusters\": [{\"id\": \"c1\"}]}" ->
            << [id |-> "c1...", name |-> "c1"] >>
      [] text = "{\"clusters\": [{\"id\": \"c1\", \"name\": \"alpha\"}, {\"id\": \"cluster-0123456789\"}]}" ->
            << [id |-> "c1...", name |-> "alpha"],
               [id |-> "cluster-0123...", name |-> "cluster-0123456789"] >>
      [] text = "{\"clusters\": [{\"id\": \"c1\", \"name\": \"alpha\"}, {\"id\": \"cluster-0123456789\"}, {\"name\": \"gamma\"}]}" ->
            << [id |-> "c1...", name |-> "alpha"],
               [id |-> "cluster-0123...", name |-> "cluster-0123456789"],
               [id |-> "...", name |-> "gamma"] >>
      [] text = "{\"clusters\": [{\"name\": \"gamma\"}]}" ->
            << [id |-> "...", name |-> "gamma"] >>
      [] OTHER -> << >>

\* The health query raises: no answer, an error status, or a body that is
\* not JSON.
HealthRaises(resp) == ~resp.ok \/ resp.status >= 400 \/ resp.text = "{bad"

\* The status cell a health answer stands for.
ShownHealth(resp) ==
    CASE HealthRaises(resp) -> "[yellow]? Unknown[/yellow]"
      [] resp.text = "{\"k8sReachable\": true}" -> "[green]Healthy[/green]"
      [] resp.text = "{\"k8sReachable\": false}" -> "[red]Unhealthy[/red]"
      [] resp.text = "{\"k8sReachable\": false, \"recommendedAction\": \"restart agent\"}" ->
            "[red]Unhealthy[/red]\n[dim]restart agent[/dim]"
      [] resp.text = "{}" -> "[red]Unhealthy[/red]"
      [] OTHER -> "[yellow]? Unknown[/yellow]"

\* The cluster list succeeded with at least one cluster.
ClustersListed ==
    dash.on /\ dash.listed.ok /\ dash.listed.status = 200
    /\ ListedRows(dash.listed.text) # << >>

\* C20: in one refresh, when the cluster list succeeds and the health queries
\* of any of the clusters raise, the clusters table has one row per listed
\* cluster in list order, the rows of the failing clusters show Unknown, the
\* other rows show the cluster's health, and the refresh returns its layout.
C20_PartialHealthFailure ==
    ClustersListed =>
        LET listed == ListedRows(dash.listed.text) IN
        /\ Len(dash.rows) = Len(dash.answers)
        /\ Len(dash.rows) <= Len(listed)
        /\ \A i \in 1..Len(dash.rows) :
              /\ dash.rows[i].id = listed[i].id
              /\ dash.rows[i].name = listed[i].name
              /\ dash.rows[i].status = ShownHealth(dash.answers[i])
              /\ HealthRaises(dash.answers[i]) =>
                    dash.rows[i].status = "[yellow]? Unknown[/yellow]"
        /\ dash.pc \in {"workspaces", "done"} =>
              /\ Len(dash.rows) = Len(listed)
              /\ dash.clusters_panel =
                    TablePanel("Clusters (" \o IntToStr(Len(listed)) \o " total)",
                               dash.rows)
              /\ ~dash.connection_error
        /\ dash.exit \in {"running", "return"}
        /\ dash.pc = "done" => dash.exit = "return"

C20_Witness ==
    /\ ClustersListed
    /\ dash.pc = "done"
    /\ dash.exit = "return"
    /\ Len(dash.rows) = 3
    /\ HealthRaises(dash.answers[1])
    /\ dash.answers[2].ok
    /\ dash.answers[2].text = "{\"k8sReachable\": true}"
    /\ HealthRaises(dash.answers[3])
    /\ dash.clusters_panel.kind = "table"
    /\ dash.clusters_panel.rows[1].status = "[yellow]? Unknown[/yellow]"
    /\ dash.clusters_panel.rows[2].status = "[green]Healthy[/green]"
    /\ dash.clusters_panel.rows[3].status = "[yellow]? Unknown[/yellow]"

\* ------------------------------------- properties: requests of the client

\* The headers of the requests of the last call are as the token demands.
BearerIffToken ==
    WasCalled =>
        \A i \in 1..Len(last.wire) :
            LET h == last.wire[i].headers IN
            /\ ("Authorization" \in DOMAIN h) <=> (cfg.token # "")
            /\ cfg.token # "" => h["Authorization"] = "Bearer " \o cfg.token
            /\ cfg.token = "" => DOMAIN h = {}

\* C27: every request Client._request sends carries "Authorization: Bearer
\* <token>" exactly when the client has a non-empty token, and no request
\* changes the client's base_url, token, timeout or verify.
C27_BearerIffToken ==
    [][ /\ cfg' = cfg
        /\ cfg'.base_url = "https://localhost:8090"
        /\ BearerIffToken' ]_vars

C27_Witness ==
    /\ calls = 2
    /\ cfg.token = "secret"
    /\ last.op = "Client._request"
    /\ last.wire[1].headers["Authorization"] = "Bearer secret"

\* The text of a tail count.
TailText(n) == CASE n = 100 -> "100" [] n = 101 -> "101" [] OTHER -> "?"

\* The request the last call sent is method on path, appended to the base URL.
Sent(method, path) ==
    /\ Len(last.wire) = 1
    /\ last.wire[1].method = method
    /\ last.wire[1].url = "https://localhost:8090" \o path

\* What create, get, delete and logs send.
WorkspaceItemRequests ==
    /\ last.op = "WorkspaceAPI.create" =>
          Sent("POST", "/api/cluster/" \o last.args[1] \o "/workspaces")
    /\ last.op = "WorkspaceAPI.get" =>
          Sent("GET", "/api/cluster/" \o last.args[1] \o "/workspaces/" \o last.args[2])
    /\ last.op = "WorkspaceAPI.delete" =>
          Sent("DELETE", "/api/cluster/" \o last.args[1] \o "/workspaces/" \o last.args[2])
    /\ last.op = "WorkspaceAPI.logs" =>
          Sent("GET", "/api/cluster/" \o last.args[1] \o "/workspaces/" \o last.args[2]
                          \o "/logs?tail=" \o TailText(last.args[3]))

\* C28, as stated: list and create use /api/cluster/{id}/workspaces, get and
\* delete /api/cluster/{id}/workspaces/{name}, logs .../logs?tail={n}, with
\* the documented method, the path appended verbatim to the base URL.
C28_WorkspacePaths ==
    /\ WorkspaceItemRequests
    /\ last.op = "WorkspaceAPI.list" =>
          Sent("GET", "/api/cluster/" \o last.args[1] \o "/workspaces")

\* C28, amended: as stated for create, get, delete and logs; list sends
\* GET /api/cluster/{id}/servers.
C28_WorkspacePathsListServers ==
    /\ WorkspaceItemRequests
    /\ last.op = "WorkspaceAPI.list" =>
          Sent("GET", "/api/cluster/" \o last.args[1] \o "/servers")

C28_Witness ==
    /\ calls = 2
    /\ last.op = "WorkspaceAPI.logs"
    /\ Succeeded
    /\ cfg.token = "secret"
    /\ last.wire[1].url = "https://localhost:8090/api/cluster/c1/workspaces/demo/logs?tail=100"

\* ------------------------------------ properties: one dashboard refresh

\* The cluster list query was answered, and how.
ListAnswered == dash.on /\ dash.listed # NoAnswer
ListUnreachable == ListAnswered /\ ~dash.listed.ok
ListHttpError == ListAnswered /\ dash.listed.ok /\ dash.listed.status >= 400
\* The answer is a success status with an empty body, on which
\* ClusterAPI.list itself raises.
ListEmptyBody ==
    ListAnswered /\ dash.listed.ok /\ dash.listed.status < 400 /\ dash.listed.text = ""
ListFailed == ListUnreachable \/ ListHttpError \/ ListEmptyBody

\* C24: generate_dashboard shows the connection guidance panel exactly when
\* the cluster list failed with a transport error (refused, timeout, DNS or
\* TLS) and the generic error panel exactly when the service answered with
\* an HTTP-level error, whatever the body of the error response.
C24_UnreachableVsError ==
    /\ ListUnreachable => dash.clusters_panel.title = "Connection Error"
    /\ ListHttpError => dash.clusters_panel.title = "Error"
    /\ (ListAnswered /\ ~ListFailed) =>
          dash.clusters_panel.title \notin {"Connection Error", "Error"}

\* s ends with suffix.
EndsWith(s, suffix) ==
    Len(s) >= Len(suffix)
    /\ SubSeq(s, Len(s) - Len(suffix) + 1, Len(s)) = suffix

\* The positions of the workspace queries among the requests of the refresh.
WsQueries == {i \in 1..Len(dash.reqs) : EndsWith(dash.reqs[i].url, "/servers")}

\* The refresh queried the workspaces of cluster id, once, and of no other.
WsQueriedOnlyFor(id) ==
    /\ Cardinality(WsQueries) = 1
    /\ \A i \in WsQueries :
          dash.reqs[i].url = "https://localhost:8090/api/cluster/" \o id \o "/servers"

\* The id of the first cluster of a list body ("" when it has none).
FirstListedId(text) ==
    CASE text = "{\"clusters\": [{\"id\": \"c1\"}]}" -> "c1"
      [] text = "{\"clusters\": [{\"id\": \"c1\", \"name\": \"alpha\"}, {\"id\": \"cluster-0123456789\"}]}" -> "c1"
      [] text = "{\"clusters\": [{\"id\": \"c1\", \"name\": \"alpha\"}, {\"id\": \"cluster-0123456789\"}, {\"name\": \"gamma\"}]}" -> "c1"
      [] OTHER -> ""

\* The cluster list comes first, and every workspace query after it.
ListQueriedFirst ==
    /\ Len(dash.reqs) >= 1
    /\ dash.reqs[1].url = "https://localhost:8090/api/deploy/clusters"
    /\ \A i \in WsQueries : i > 1

\* C26, as stated: in each refresh the cluster list is queried before any
\* workspace query, and workspaces are queried for exactly one cluster: the
\* focus cluster when one is given, otherwise the first listed cluster; with
\* no focus cluster and an empty list no workspace query is issued.  (The
\* success answer with an empty body is left aside.)
C26_OneWorkspaceQuery ==
    (dash.on /\ dash.pc = "done") =>
        /\ ListQueriedFirst
        /\ (dash.focus # PyNone /\ ~ListEmptyBody) => WsQueriedOnlyFor(dash.focus.s)
        /\ (dash.focus = PyNone /\ ~ListFailed /\ FirstListedId(dash.listed.text) # "") =>
              WsQueriedOnlyFor(FirstListedId(dash.listed.text))
        /\ (dash.focus = PyNone /\ ~ListFailed /\ dash.listed.text = "{\"clusters\": []}") =>
              WsQueries = {}

\* C26, amended: the cluster list is queried before any workspace query; when
\* it succeeds, workspaces are queried for exactly one cluster, the focus
\* cluster when one is given, otherwise the first listed cluster, and for
\* none when there is no focus cluster and the list is empty or its first
\* cluster has no id; when it fails, no workspace query is issued at all.
C26_OneWorkspaceQueryIfListed ==
    (dash.on /\ dash.pc = "done") =>
        /\ ListQueriedFirst
        /\ (~ListFailed /\ dash.focus # PyNone) => WsQueriedOnlyFor(dash.focus.s)
        /\ (~ListFailed /\ dash.focus = PyNone /\ FirstListedId(dash.listed.text) # "") =>
              WsQueriedOnlyFor(FirstListedId(dash.listed.text))
        /\ (~ListFailed /\ dash.focus = PyNone /\ FirstListedId(dash.listed.text) = "") =>
              WsQueries = {}
        /\ ListFailed => WsQueries = {}

C26_Witness ==
    /\ dash.on /\ dash.pc = "done"
    /\ dash.focus = PyStr("c9")
    /\ dash.listed.ok
    /\ FirstListedId(dash.listed.text) = "c1"
    /\ Len(dash.reqs) = 4
    /\ dash.reqs[4].url = "https://localhost:8090/api/cluster/c9/servers"
    /\ dash.workspaces_panel.kind = "table"

\* --------------------------------- the runner's full workflow (run.py)

\* run_full_workflow: "steps", in the order of the list.
Steps == <<"Setup", "Verification", "Testing", "Examples", "Diagnostics", "Cleanup">>

\* The 'enabled' key of a step's section of the configuration.
EnabledKeys == {"absent", "true", "false"}

\* config.get('enabled', <default>) of each run_* function: cleanup is off
\* unless configured, every other step is on.
step_enabled(step, config) ==
    IF config[step] = "absent" THEN step # "Cleanup" ELSE config[step] = "true"

\* What the work of an enabled step comes to: its commands succeed, one of
\* them fails, or (the example's status decoding) an exception leaves it.
StepWork(step) ==
    IF step = "Examples" THEN {"ok", "failed", "raise"} ELSE {"ok", "failed"}

\* run_setup .. run_cleanup: a disabled step returns True without running
\* anything, an enabled one returns whether its commands succeeded.
run_step(step, config, work) ==
    IF ~step_enabled(step, config)
    THEN [step |-> step, worked |-> FALSE, out |-> Return(PyBool(TRUE))]
    ELSE [step |-> step, worked |-> TRUE,
          out |-> IF work = "raise" THEN Raise("ValueError", "Expecting value")
                  ELSE Return(PyBool(work = "ok"))]

FlowStart(config) ==
    [on |-> TRUE, config |-> config, pc |-> "loop", ran |-> <<>>,
     success |-> TRUE, exit |-> "running", log |-> ""]

\* run_full_workflow: the statements after the loop.
run_full_workflow_return(fl) ==
    [fl EXCEPT !.pc = "done",
               !.exit = IF fl.success THEN "True" ELSE "False",
               !.log = IF fl.success THEN "Full workflow completed successfully"
                       ELSE "Full workflow failed"]

\* The loop body without its break: a failed step is noted and the next
\* step runs.
run_full_workflow_body_no_break(fl, r) ==
    LET ran == [fl EXCEPT !.ran = Append(@, r)] IN
    IF r.out.tag = "raise"
    THEN [ran EXCEPT !.pc = "done", !.exit = "raise " \o r.out.cls]
    ELSE LET noted == IF Truthy(r.out.value) THEN ran
                      ELSE [ran EXCEPT !.success = FALSE]
         IN IF Len(noted.ran) = Len(Steps)
            THEN run_full_workflow_return(noted)
            ELSE noted

\* run_full_workflow: "if not step_func(): success = False; break", r being
\* what step_func did; after the last step, or the break, the function ends.
run_full_workflow_body(fl, r) ==
    LET ran == [fl EXCEPT !.ran = Append(@, r)] IN
    IF r.out.tag = "raise"
    THEN [ran EXCEPT !.pc = "done", !.exit = "raise " \o r.out.cls]
    ELSE IF ~Truthy(r.out.value)
    THEN run_full_workflow_return([ran EXCEPT !.success = FALSE])
    ELSE IF Len(ran.ran) = Len(Steps)
    THEN run_full_workflow_return(ran)
    ELSE ran

FlowInit ==
    /\ cfg \in {Client_init(b, "", DefaultTimeout, FALSE) : b \in {"https://localhost:8090"}}
    /\ calls = 0
    /\ requests = 0
    /\ decodes = 0
    /\ last = NoCall
    /\ svc = Idle
    /\ w = Idle
    /\ dash = Idle
    /\ cli = Idle
    /\ flow \in {FlowStart(c) : c \in [{Steps[k] : k \in 1..Len(Steps)} -> EnabledKeys]}

\* One iteration of the loop of run_full_workflow: the next step runs.
Flow_step ==
    /\ flow.on /\ flow.pc = "loop"
    /\ LET step == Steps[Len(flow.ran) + 1] IN
       \E work \in StepWork(step) :
          flow' = run_full_workflow_body(flow, run_step(step, flow.config, work))
    /\ UNCHANGED <<cfg, calls, requests, decodes, last, svc, w, dash, cli>>

FlowNext == Flow_step

FlowSpec == FlowInit /\ [][FlowNext]_vars

\* ---------------------------------- properties: the runner's workflow

\* The step ran[k] returned success.
StepSucceeded(k) == flow.ran[k].out = Return(PyBool(TRUE))

\* C30: run_full_workflow runs Setup, Verification, Testing, Examples,
\* Diagnostics, Cleanup in this order, each at most once; it runs no step
\* after one that returned failure, and returns success exactly when all six
\* ran and returned success, a disabled step counting as a success.
C30_StepsInOrderUntilFailure ==
    flow.on =>
        /\ Len(flow.ran) <= 6
        /\ \A k \in 1..Len(flow.ran) :
              /\ flow.ran[k].step =
                    <<"Setup", "Verification", "Testing", "Examples",
                      "Diagnostics", "Cleanup">>[k]
              /\ k < Len(flow.ran) => StepSucceeded(k)
              /\ ~flow.ran[k].worked => StepSucceeded(k)
              /\ flow.ran[k].worked <=>
                    (flow.config[flow.ran[k].step] = "true"
                     \/ (flow.config[flow.ran[k].step] = "absent"
                         /\ flow.ran[k].step # "Cleanup"))
        /\ flow.pc = "loop" =>
              /\ flow.exit = "running"
              /\ Len(flow.ran) < 6
              /\ \A k \in 1..Len(flow.ran) : StepSucceeded(k)
        /\ flow.exit = "True" <=>
              (flow.pc = "done" /\ Len(flow.ran) = 6
               /\ \A k \in 1..6 : StepSucceeded(k))
        /\ flow.exit = "False" <=>
              (flow.pc = "done" /\ Len(flow.ran) >= 1
               /\ flow.ran[Len(flow.ran)].out = Return(PyBool(FALSE)))

C30_Witness ==
    /\ flow.on /\ flow.pc = "done"
    /\ flow.exit = "False"
    /\ Len(flow.ran) = 3
    /\ ~flow.ran[1].worked
    /\ flow.ran[2].worked
    /\ flow.ran[3].out = Return(PyBool(FALSE))

\* ------------------------------------------------ the CLI commands (cli/*.py)

\* "for x in value: x.get(...)": the rows of a table built from a list of
\* objects.  Iterating a dict or a str gives strings, which have no "get".
py_each_get(v) ==
    CASE v.py = "list" ->
            IF \A k \in 1..Len(v.items) : v.items[k].py = "dict"
            THEN Return(PyNone) ELSE Raise("AttributeError", "get")
      [] v.py = "dict" ->
            IF DOMAIN v.items = {} THEN Return(PyNone) ELSE Raise("AttributeError", "get")
      [] v.py = "str" ->
            IF v.s = "" THEN Return(PyNone) ELSE Raise("AttributeError", "get")
      [] OTHER -> Raise("TypeError", "object is not iterable")

\* len(value)
py_len(v) ==
    CASE v.py = "list" -> Return(PyInt(Len(v.items)))
      [] v.py = "dict" -> Return(PyInt(Cardinality(DOMAIN v.items)))
      [] v.py = "str" -> Return(PyInt(Len(v.s)))
      [] OTHER -> Raise("TypeError", "object has no len()")

\* The position of the first sep in s, 0 when there is none.
str_find(s, sep) ==
    LET hits == {k \in 1..Len(s) : SubSeq(s, k, k) = sep} IN
    IF hits = {} THEN 0 ELSE CHOOSE k \in hits : \A j \in hits : k <= j

RECURSIVE str_split(_, _)
\* s.split(sep), sep one character.
str_split(s, sep) ==
    LET at == str_find(s, sep) IN
    IF at = 0 THEN <<s>>
    ELSE <<SubSeq(s, 1, at - 1)>> \o str_split(SubSeq(s, at + 1, Len(s)), sep)

\* What the service answers to the request of a command.
CliResponses ==
    {[ok |-> TRUE, status |-> 200, text |-> t] :
        t \in {"", "{}", "[]", "{bad", "{\"clusterId\": \"c-1\"}",
               "{\"clusters\": [{\"id\": \"c1\"}]}", "{\"name\": \"demo\"}",
               "{\"k8sReachable\": true}", "{\"k8sReachable\": false}",
               "{\"servers\": []}"}}
    \cup {[ok |-> TRUE, status |-> 401, text |-> ""],
          [ok |-> TRUE, status |-> 404, text |-> "not found"],
          [ok |-> TRUE, status |-> 500, text |-> "boom"],
          [ok |-> FALSE, failure |-> "refused"],
          [ok |-> FALSE, failure |-> "timeout"]}

\* The options of a command line that matter to its outcome.
DefaultOpts ==
    [name |-> "", format |-> "table", setting |-> "name=demo",
     schema |-> "id:int:required", data |-> "[]"]

CliOpts(cmd) ==
    CASE cmd = "cluster bootstrap" ->
            {[DefaultOpts EXCEPT !.name = n] : n \in {"", "demo"}}
      [] cmd \in {"cluster list", "cluster get", "db query"} ->
            {[DefaultOpts EXCEPT !.format = f] : f \in {"table", "json"}}
      [] cmd = "cluster update" ->
            {[DefaultOpts EXCEPT !.setting = x] : x \in {"name=demo", "debug=True", "oops"}}
      [] cmd = "db table create" ->
            {[DefaultOpts EXCEPT !.schema = x] : x \in {"id:int:required", "id"}}
      [] cmd = "db insert" ->
            {[DefaultOpts EXCEPT !.data = x] : x \in {"[]", "{}", "{bad"}}
      [] OTHER -> {DefaultOpts}

CliCommands ==
    {"cluster list", "cluster get", "cluster status", "cluster bootstrap",
     "cluster update", "workspace list", "workspace create", "workspace delete",
     "workspace logs", "db list", "db create", "db table create", "db query",
     "db insert"}

\* A command about to run.
CliStart(cmd, opts) ==
    [on |-> TRUE, cmd |-> cmd, opts |-> opts, pc |-> "start", made |-> <<>>,
     printed |-> <<>>, exit |-> "running"]

\* The body of a command's try block so far: the client calls it made (what
\* each sent, and how it ended), what it printed, and how it ends.
Tried(made, printed, out) == [made |-> made, printed |-> printed, out |-> out]

\* One client call as the command sees it.
Made(r) == [wire |-> r.wire, out |-> r.out]

\* "r = <client call>; <rest>": a raising call ends the try block, and rest
\* is what the block prints and how it ends after a call that returned.
AfterCall(r, rest) ==
    IF r.out.tag = "raise" THEN Tried(<<Made(r)>>, <<>>, r.out)
    ELSE Tried(<<Made(r)>>, rest.printed, rest.out)

\* A handler that prints the error and lets the command end normally.
command_except_no_abort(cl, t) ==
    [cl EXCEPT !.pc = "done", !.made = t.made,
               !.printed = IF IsInstance(t.out, "Exception")
                           THEN t.printed \o <<"Error: " \o t.out.msg>>
                           ELSE t.printed,
               !.exit = "0"]

\* Every command: "try: <body> except Exception as e: print Error: e;
\* raise click.Abort()", and the exit of the process: 0 after a return, 1
\* (click's "Aborted!") after the Abort.
command_except(cl, t) ==
    [cl EXCEPT !.pc = "done", !.made = t.made,
               !.printed = IF IsInstance(t.out, "Exception")
                           THEN t.printed \o <<"Error: " \o t.out.msg>>
                           ELSE t.printed,
               !.exit = IF t.out.tag = "return" THEN "0" ELSE "Abort"]

\* What a call returned, None standing for the value of a call that raised.
Returned(r) == IF r.out.tag = "return" THEN r.out.value ELSE PyNone

\* The rest of a try block that prints one line and returns.
Prints(line) == Tried(<<>>, <<line>>, Return(PyNone))

\* The rest of a try block that ends as out does, printing line if out returns.
PrintsIf(out, line) ==
    IF out.tag = "return" THEN Prints(line) ELSE Tried(<<>>, <<>>, out)

\* cluster list
list_clusters(c, format, resp) ==
    LET r == ClusterAPI_list(c, resp) IN
    AfterCall(r, IF format = "json" THEN Prints("json")
                 ELSE PrintsIf(py_each_get(Returned(r)), "table Clusters"))

\* cluster get
get_cluster(c, cluster_id, output, resp) ==
    AfterCall(ClusterAPI_get(c, cluster_id, resp), Prints(output))

\* cluster status: the module never imports sys, so the exit of an unhealthy
\* cluster is a NameError, which the handler catches like any other error.
cluster_status(c, cluster_id, resp) ==
    LET r == HealthAPI_cluster(c, cluster_id, resp)
        reachable == response_get(Returned(r), "k8sReachable", PyNone)
    IN AfterCall(r,
          IF reachable.tag = "raise" THEN Tried(<<>>, <<>>, reachable)
          ELSE Tried(<<>>, <<"table Cluster Health: " \o cluster_id>>,
                     IF Truthy(reachable.value) THEN Return(PyNone)
                     ELSE Raise("NameError", "name 'sys' is not defined")))

\* cluster bootstrap: the bootstrap request answered resp, and the settings
\* request, when --name asks for one, answered resp2.
bootstrap_cluster(c, kubeconfig, name, resp, resp2) ==
    LET r == ClusterAPI_bootstrap(c, kubeconfig, resp)
        cluster_id == py_str(Returned(r))
        booted == "Cluster bootstrapped: " \o cluster_id
        u == ClusterAPI_update_settings(c, cluster_id,
                 PyDict([k \in {"name"} |-> PyStr(name)]), resp2)
    IN
    IF r.out.tag = "raise" THEN Tried(<<Made(r)>>, <<>>, r.out)
    ELSE IF name = "" THEN Tried(<<Made(r)>>, <<booted>>, Return(PyNone))
    ELSE IF u.out.tag = "raise" THEN Tried(<<Made(r), Made(u)>>, <<booted>>, u.out)
    ELSE Tried(<<Made(r), Made(u)>>,
               <<booted, "Cluster name set to: " \o name>>, Return(PyNone))

RECURSIVE str_lower(_)
\* s.lower()
str_lower(s) ==
    IF s = "" THEN ""
    ELSE LET ch == SubSeq(s, 1, 1)
             at == str_find("ABCDEFGHIJKLMNOPQRSTUVWXYZ", ch)
         IN (IF at = 0 THEN ch
             ELSE SubSeq("abcdefghijklmnopqrstuvwxyz", at, at))
            \o str_lower(SubSeq(s, 2, Len(s)))

\* update_cluster: "key, value = s.split('=', 1)" and the value it stores.
update_cluster_setting(s) ==
    LET at == str_find(s, "=")
        value == SubSeq(s, at + 1, Len(s))
    IN
    IF at = 0
    THEN Raise("ValueError", "not enough values to unpack (expected 2, got 1)")
    ELSE Return([key |-> SubSeq(s, 1, at - 1),
                 value |-> IF str_lower(value) \in {"true", "false"}
                           THEN PyBool(str_lower(value) = "true")
                           ELSE PyStr(value)])

\* cluster update, with one --setting
update_cluster(c, cluster_id, setting, resp) ==
    LET kv == update_cluster_setting(setting) IN
    IF kv.tag = "raise" THEN Tried(<<>>, <<>>, kv)
    ELSE AfterCall(
            ClusterAPI_update_settings(c, cluster_id,
                PyDict([k \in {kv.value.key} |-> kv.value.value]), resp),
            Prints("Cluster settings updated"))

\* workspace list
list_workspaces(c, cluster_id, resp) ==
    LET r == WorkspaceAPI_list(c, cluster_id, resp) IN
    AfterCall(r, PrintsIf(py_each_get(Returned(r)), "table Workspaces in " \o cluster_id))

\* workspace create
create_workspace(c, cluster_id, name, image, resp) ==
    LET spec == PyDict([k \in {"name", "image"} |->
                    IF k = "name" THEN PyStr(name) ELSE PyStr(image)])
        r == WorkspaceAPI_create(c, cluster_id, spec, resp)
        made == response_get(Returned(r), "name", PyNone)
    IN AfterCall(r, IF made.tag = "raise" THEN Tried(<<>>, <<>>, made)
                    ELSE Prints("Workspace created: " \o py_str(made.value)))

\* workspace delete
delete_workspace(c, cluster_id, name, resp) ==
    AfterCall(WorkspaceAPI_delete(c, cluster_id, name, resp),
              Prints("Workspace deleted: " \o name))

\* workspace logs
workspace_logs(c, cluster_id, name, tail, resp) ==
    LET r == WorkspaceAPI_logs(c, cluster_id, name, tail, resp) IN
    AfterCall(r, PrintsIf(py_each_get(Returned(r)), "logs"))

\* db list
list_dbs(c, cluster_id, resp) ==
    LET r == DatabaseAPI_list(c, cluster_id, resp) IN
    AfterCall(r, PrintsIf(py_each_get(Returned(r)), "table Databases in " \o cluster_id))

\* db create
create_db(c, cluster_id, name, description, resp) ==
    LET r == DatabaseAPI_create(c, cluster_id, name, description, resp)
        id == response_get(Returned(r), "id", PyNone)
    IN AfterCall(r, IF id.tag = "raise" THEN Tried(<<>>, <<>>, id)
                    ELSE Prints("Database created: " \o py_str(id.value)))

\* create_table: the columns of --schema; "parts[1]" needs a type after the name.
create_table_columns(schema) ==
    LET defs == str_split(schema, ",")
        parts(k) == str_split(defs[k], ":")
    IN
    IF \E k \in 1..Len(defs) : Len(parts(k)) < 2
    THEN Raise("IndexError", "list index out of range")
    ELSE Return(PyList([k \in 1..Len(defs) |->
            PyDict([f \in {"name", "type"}
                          \cup ({parts(k)[j] : j \in 3..Len(parts(k))}
                                \cap {"required", "unique", "indexed"}) |->
                      CASE f = "name" -> PyStr(parts(k)[1])
                        [] f = "type" -> PyStr(parts(k)[2])
                        [] OTHER -> PyBool(TRUE)])]))

\* db table create
create_table(c, cluster_id, db_id, table_name, schema, primary_key, resp) ==
    LET columns == create_table_columns(schema) IN
    IF columns.tag = "raise" THEN Tried(<<>>, <<>>, columns)
    ELSE AfterCall(
            DatabaseAPI_create_table(c, cluster_id, db_id,
                PyDict([k \in {"name", "primaryKey", "schema"} |->
                          CASE k = "name" -> PyStr(table_name)
                            [] k = "primaryKey" -> PyStr(primary_key)
                            [] OTHER -> columns.value]), resp),
            Prints("Table created: " \o table_name))

\* query_table: the table of the rows, its columns the keys of the first row.
query_table_rows(rows) ==
    CASE rows.py = "list" ->
            IF rows.items[1].py # "dict" THEN Raise("AttributeError", "keys")
            ELSE IF \E k \in 1..Len(rows.items) : rows.items[k].py # "dict"
            THEN Raise("AttributeError", "values")
            ELSE Return(PyNone)
      [] rows.py = "dict" -> Raise("KeyError", "0")
      [] rows.py = "str" -> Raise("AttributeError", "keys")
      [] OTHER -> Raise("TypeError", "object has no len()")

\* db query
query_table(c, cluster_id, db_id, table, limit, format, resp) ==
    LET r == DatabaseAPI_query(c, cluster_id, db_id, table, limit, resp)
        rows == Returned(r)
    IN AfterCall(r, IF format = "json" THEN Prints("json")
                    ELSE IF ~Truthy(rows) THEN Prints("No rows found")
                    ELSE PrintsIf(query_table_rows(rows), "table " \o table))

\* db insert
insert_rows(c, cluster_id, db_id, table, data, resp) ==
    LET parsed == json_loads(data)
        rows == IF parsed.value.py = "list" THEN parsed.value
                ELSE PyList(<<parsed.value>>)
        r == DatabaseAPI_insert(c, cluster_id, db_id, table, rows, resp)
        n == py_len(Returned(r))
    IN
    IF parsed.tag = "raise" THEN Tried(<<>>, <<>>, parsed)
    ELSE AfterCall(r, IF n.tag = "raise" THEN Tried(<<>>, <<>>, n)
                      ELSE Prints("Inserted " \o IntToStr(n.value.n) \o " row(s)"))

CliInit ==
    /\ cfg \in {Client_init(b, t, DefaultTimeout, FALSE) : b \in BaseUrls, t \in Tokens}
    /\ calls = 0
    /\ requests = 0
    /\ decodes = 0
    /\ last = NoCall
    /\ svc = Idle
    /\ dash = Idle
    /\ flow = Idle
    /\ \/ /\ cli \in UNION {{CliStart(cmd, o) : o \in CliOpts(cmd)} : cmd \in CliCommands}
          /\ w = Idle
       \/ /\ cli = Idle
          /\ w \in {WaitStart("cli", "demo", t, 0) : t \in TimeoutOpts}

\* The command cmd runs: t is its try block, and the handler ends it.
Cli_run(cmd, t) ==
    /\ cli.on /\ cli.pc = "start" /\ cli.cmd = cmd
    /\ cli' = command_except(cli, t)
    /\ UNCHANGED <<cfg, calls, requests, decodes, last, svc, w, dash, flow>>

Cli_list_clusters ==
    \E resp \in CliResponses :
       Cli_run("cluster list", list_clusters(cfg, cli.opts.format, resp))

Cli_get_cluster ==
    \E resp \in CliResponses :
       Cli_run("cluster get", get_cluster(cfg, "c1", cli.opts.format, resp))

Cli_cluster_status ==
    \E resp \in CliResponses :
       Cli_run("cluster status", cluster_status(cfg, "c1", resp))

Cli_bootstrap_cluster ==
    \E k \in Kubeconfigs, resp \in CliResponses, resp2 \in CliResponses :
       Cli_run("cluster bootstrap", bootstrap_cluster(cfg, k, cli.opts.name, resp, resp2))

Cli_update_cluster ==
    \E resp \in CliResponses :
       Cli_run("cluster update", update_cluster(cfg, "c1", cli.opts.setting, resp))

Cli_list_workspaces ==
    \E resp \in CliResponses :
       Cli_run("workspace list", list_workspaces(cfg, "c1", resp))

Cli_create_workspace ==
    \E resp \in CliResponses :
       Cli_run("workspace create",
               create_workspace(cfg, "c1", "demo", "nginx:alpine", resp))

Cli_delete_workspace ==
    \E resp \in CliResponses :
       Cli_run("workspace delete", delete_workspace(cfg, "c1", "demo", resp))

Cli_workspace_logs ==
    \E resp \in CliResponses :
       Cli_run("workspace logs", workspace_logs(cfg, "c1", "demo", 100, resp))

Cli_list_dbs ==
    \E resp \in CliResponses : Cli_run("db list", list_dbs(cfg, "c1", resp))

Cli_create_db ==
    \E resp \in CliResponses :
       Cli_run("db create", create_db(cfg, "c1", "demo", "", resp))

Cli_create_table ==
    \E resp \in CliResponses :
       Cli_run("db table create",
               create_table(cfg, "c1", "db1", "t1", cli.opts.schema, "id", resp))

Cli_query_table ==
    \E resp \in CliResponses :
       Cli_run("db query",
               query_table(cfg, "c1", "db1", "t1", 100, cli.opts.format, resp))

Cli_insert_rows ==
    \E resp \in CliResponses :
       Cli_run("db insert", insert_rows(cfg, "c1", "db1", "t1", cli.opts.data, resp))

CliNext ==
    \/ Cli_list_clusters
    \/ Cli_get_cluster
    \/ Cli_cluster_status
    \/ Cli_bootstrap_cluster
    \/ Cli_update_cluster
    \/ Cli_list_workspaces
    \/ Cli_create_workspace
    \/ Cli_delete_workspace
    \/ Cli_workspace_logs
    \/ Cli_list_dbs
    \/ Cli_create_db
    \/ Cli_create_table
    \/ Cli_query_table
    \/ Cli_insert_rows
    \/ Wait_cli_poll
    \/ Wait_cli_timeout

CliSpec == CliInit /\ [][CliNext]_vars

\* ------------------------------------------- properties: the CLI commands

\* The requests the command sent, in order.
CliSent == {<<k, j>> \in (1..Len(cli.made)) \X (1..2) : j <= Len(cli.made[k].wire)}

\* The positions of the client calls of the command that raised.
CliRaised == {k \in 1..Len(cli.made) : cli.made[k].out.tag = "raise"}

\* The exception the status request of the waiter's last poll raised, if any.
WaitLastCall == WorkspaceAPI_get(cfg, "c1", w.name, w.last)

\* C25: a cluster, workspace or db command ends with click.Abort, the error
\* printed last, whenever a client call it made raised (a transport error,
\* NotFound, Unauthorized, any other API error, a decode error); it ends with
\* exit code 0 only if no client call it made raised.
C25_CommandsAbortOnError ==
    /\ cli.on /\ cli.pc = "done" =>
          /\ \A k \in CliRaised :
                /\ k = Len(cli.made)
                /\ cli.exit = "Abort"
                /\ cli.printed # <<>>
                /\ cli.printed[Len(cli.printed)] = "Error: " \o cli.made[k].out.msg
          /\ cli.exit = "0" => CliRaised = {}
          /\ cli.exit \in {"0", "Abort"}
    /\ w.on /\ w.kind = "cli" /\ w.pc = "done" /\ w.served > 0 =>
          /\ WaitLastCall.out.tag = "raise" =>
                /\ w.exit = "Abort"
                /\ w.printed[Len(w.printed)] = "Error: " \o WaitLastCall.out.msg
          /\ w.exit = "return" => WaitLastCall.out.tag = "return"
          /\ w.exit \in {"return", "Abort"}

C25_Witness ==
    /\ cli.on /\ cli.pc = "done" /\ cli.cmd = "cluster bootstrap"
    /\ Len(cli.made) = 2
    /\ cli.made[1].out.tag = "return"
    /\ cli.made[2].out.tag = "raise" /\ cli.made[2].out.cls = "NotFoundError"
    /\ cli.exit = "Abort"

\* C29: cluster bootstrap --name, when ClusterAPI.bootstrap returns the empty
\* string, reports no bootstrapped cluster and sends no
\* PUT /api/settings/cluster/ with an empty id.
C29_NoSettingsForEmptyId ==
    (/\ cli.on /\ cli.pc = "done" /\ cli.cmd = "cluster bootstrap"
     /\ cli.opts.name # ""
     /\ Len(cli.made) >= 1
     /\ cli.made[1].out = Return(PyStr("")))
    => /\ \A k \in 1..Len(cli.printed) :
             ~Contains(cli.printed[k], "Cluster bootstrapped")
       /\ \A p \in CliSent :
             ~(/\ cli.made[p[1]].wire[p[2]].method = "PUT"
               /\ EndsWith(cli.made[p[1]].wire[p[2]].url, "/api/settings/cluster/"))

\* ----------------- the dashboard refresh loops (cli/viz.py, visualizer/dashboard.py)

\* Refresh cycles of one run of a loop.
MaxTicks == 2

\* What the service answers to the queries of a refresh of the viz loop.
VizListResponses ==
    { [ok |-> TRUE, status |-> 200, text |-> "{\"clusters\": [{\"id\": \"c1\"}]}"],
      [ok |-> TRUE, status |-> 200, text |-> "{\"clusters\": []}"],
      [ok |-> TRUE, status |-> 500, text |-> "boom"],
      [ok |-> FALSE, failure |-> "refused"] }

VizHealthResponses ==
    { [ok |-> TRUE, status |-> 200, text |-> "{\"k8sReachable\": true}"],
      [ok |-> TRUE, status |-> 404, text |-> "not found"],
      [ok |-> FALSE, failure |-> "timeout"] }

VizWorkspaceResponses ==
    { [ok |-> TRUE, status |-> 200,
       text |-> "{\"servers\": [{\"name\": \"demo\", \"image\": \"nginx:alpine\", \"status\": \"Running\"}]}"],
      [ok |-> TRUE, status |-> 403, text |-> ""],
      [ok |-> FALSE, failure |-> "refused"] }

\* The panels of the two layouts, in the order update_layout fills them.
VizPanels == <<"header", "clusters", "workspaces", "footer">>
RunPanels == <<"header", "health", "stats", "clusters", "workspaces", "footer">>

\* One panel of a layout: the refresh cycle that built it (0: the layout as
\* created, nothing in it), its title and the status cells of its rows.
Shot(cycle, title, cells) == [cycle |-> cycle, title |-> title, cells |-> cells]

\* A frame on the terminal: the panels as they were when it was drawn.
NoFrame == [drawn |-> FALSE]
Frame(panels) == [drawn |-> TRUE, panels |-> panels]

\* The layout generate_dashboard returned in the refresh cycle tick.
viz_layout(d, tick) ==
    [p \in {VizPanels[k] : k \in 1..Len(VizPanels)} |->
        CASE p = "clusters" ->
                Shot(tick, d.clusters_panel.title,
                     [k \in 1..Len(d.clusters_panel.rows) |-> d.clusters_panel.rows[k].status])
          [] p = "workspaces" ->
                Shot(tick, d.workspaces_panel.title,
                     [k \in 1..Len(d.workspaces_panel.rows) |-> d.workspaces_panel.rows[k].status])
          [] p = "header" -> Shot(tick, d.header, <<>>)
          [] OTHER -> Shot(tick, Take(d.footer, 13), <<>>)]

\* A loop about to start: viz calls generate_dashboard for the first layout,
\* Dashboard.run has created its layout and started the live display on it.
LoopStart(kind, focus) ==
    [on |-> TRUE, kind |-> kind, focus |-> focus, tick |-> 1,
     pc |-> IF kind = "viz" THEN "build" ELSE "update",
     cur |-> IF kind = "viz" THEN DashStart(focus) ELSE Idle,
     idx |-> 0,
     live |-> kind = "run",
     screen |-> IF kind = "viz" THEN <<>>
                ELSE [p \in {RunPanels[k] : k \in 1..Len(RunPanels)} |-> Shot(0, "", <<>>)],
     frame |-> NoFrame,
     nreq |-> 0, failed |-> {}, survived |-> {},
     interrupted |-> FALSE, at |-> "", printed |-> <<>>, exit |-> "running"]

\* Live.refresh(): the display draws what it holds at this moment.
Live_draw(d) == [d EXCEPT !.frame = Frame(d.screen)]

\* Live.stop() on leaving the with block: the refresh thread ends, and a
\* display that is not on the alternate screen draws one last time.
Live_stop(d) ==
    IF d.live /\ d.kind = "viz" THEN [Live_draw(d) EXCEPT !.live = FALSE]
    ELSE [d EXCEPT !.live = FALSE]

\* An interrupt handler inside the loop: the message is printed and the loop
\* goes on.
viz_except_continues(d) ==
    [d EXCEPT !.interrupted = TRUE, !.at = d.pc,
              !.printed = Append(@, "Dashboard closed")]

\* viz: KeyboardInterrupt leaves the with block and
\* "except KeyboardInterrupt: print Dashboard closed" ends the command.
viz_except(d) ==
    [Live_stop(d) EXCEPT !.interrupted = TRUE, !.at = d.pc, !.pc = "closed",
                         !.printed = Append(@, "Dashboard closed"),
                         !.exit = "return"]

\* viz: generate_dashboard has gone one step, to cur, its query (if it made
\* one) of the kind query, raising or not.  When generate_dashboard returns,
\* its layout becomes what the display holds (the first one through Live(...)
\* and the start of the display, which draws it; the later ones through
\* live.update) and the loop sleeps; an exception leaving generate_dashboard
\* leaves viz.
viz_step(d, cur, query, raised) ==
    LET asked == [d EXCEPT !.nreq = @ + Len(cur.reqs) - Len(d.cur.reqs),
                           !.failed = IF raised THEN @ \cup {query} ELSE @]
    IN
    IF cur.pc # "done" THEN [asked EXCEPT !.cur = cur]
    ELSE IF cur.exit # "return"
    THEN [Live_stop(asked) EXCEPT !.cur = Idle, !.pc = "crashed", !.exit = cur.exit]
    ELSE LET shown == [asked EXCEPT !.cur = Idle, !.pc = "sleep", !.live = TRUE,
                                    !.screen = viz_layout(cur, d.tick)]
         IN IF d.live THEN shown ELSE Live_draw(shown)

\* viz: "time.sleep(refresh)" is over and the next generate_dashboard begins.
viz_tick(d) ==
    [d EXCEPT !.tick = @ + 1, !.pc = "build", !.cur = DashStart(d.focus),
              !.survived = @ \cup d.failed, !.failed = {}]

\* self.client.<name>(...) in the Dashboard: name must be an attribute of
\* Client, and one that can be called, before any request is made.
Client_call(name) ==
    LET attributes == {"base_url", "token", "timeout", "verify", "clusters", "health",
                       "workspaces", "databases", "_get", "_post", "_put", "_delete",
                       "_request"}
        methods == {"workspaces", "databases", "_get", "_post", "_put", "_delete",
                    "_request"}
    IN
    IF name \notin attributes
    THEN Raise("AttributeError", "'Client' object has no attribute '" \o name \o "'")
    ELSE IF name \notin methods
    THEN Raise("TypeError", "object is not callable")
    ELSE Return(PyNone)

\* Dashboard.create_health_panel / create_stats_panel: "try: <query> ...
\* except Exception as e: return Panel(Error: e)".
Dashboard_create_panel(title, query) ==
    LET q == Client_call(query) IN
    IF IsInstance(q, "Exception") THEN TextPanel(title, "Error: " \o q.msg)
    ELSE TextPanel(title, "")

\* Dashboard.create_cluster_table / create_workspace_table: "try: <query>
\* ... except Exception as e: table.add_row(Error, str(e), ...)".
Dashboard_create_table(title, query) ==
    LET q == Client_call(query) IN
    IF IsInstance(q, "Exception")
    THEN TablePanel(title, <<[name |-> "Error", status |-> q.msg]>>)
    ELSE TablePanel(title, <<>>)

\* Dashboard.update_layout: what goes into the panel.
Dashboard_panel(panel) ==
    CASE panel = "health" -> Dashboard_create_panel("System Health", "health")
      [] panel = "stats" -> Dashboard_create_panel("Statistics", "list_clusters")
      [] panel = "clusters" -> Dashboard_create_table("Clusters", "list_clusters")
      [] panel = "workspaces" -> Dashboard_create_table("Workspaces", "list_clusters")
      [] panel = "header" -> TextPanel("GuildNet Dashboard", "")
      [] OTHER -> TextPanel("Press Ctrl+C to exit | Updates every 5 seconds", "")

\* Dashboard.update_layout: its next layout[...].update(...); the layout is
\* the one the display holds.  After the footer the loop sleeps.
Dashboard_update_layout(d) ==
    LET panel == RunPanels[d.idx + 1]
        built == Dashboard_panel(panel)
        degraded == built.text # "" \/ built.rows # <<>>
        updated == [d EXCEPT !.screen[panel] =
                                 Shot(d.tick, built.title,
                                      [k \in 1..Len(built.rows) |-> built.rows[k].status]),
                             !.failed = IF degraded THEN @ \cup {panel} ELSE @]
    IN IF d.idx + 1 < Len(RunPanels)
       THEN [updated EXCEPT !.idx = @ + 1]
       ELSE [updated EXCEPT !.idx = 0, !.pc = "sleep"]

\* Dashboard.run: "time.sleep(refresh_interval)" is over, self.running holds.
Dashboard_run_tick(d) ==
    [d EXCEPT !.tick = @ + 1, !.pc = "update",
              !.survived = @ \cup d.failed, !.failed = {}]

\* Dashboard.run: "except KeyboardInterrupt: print Dashboard stopped;
\* self.running = False".
Dashboard_run_except(d) ==
    [Live_stop(d) EXCEPT !.interrupted = TRUE, !.at = d.pc, !.pc = "closed",
                         !.printed = Append(@, "Dashboard stopped"),
                         !.exit = "return"]

LoopInit ==
    /\ cfg \in {Client_init(b, "", DefaultTimeout, FALSE) : b \in {"https://localhost:8090"}}
    /\ calls = 0
    /\ requests = 0
    /\ decodes = 0
    /\ last = NoCall
    /\ svc = Idle
    /\ w = Idle
    /\ dash \in {LoopStart("viz", f) : f \in FocusClusters}
                \cup {Live_draw(LoopStart("run", PyNone))}
    /\ cli = Idle
    /\ flow = Idle

Building(step) == dash.on /\ dash.kind = "viz" /\ dash.pc = "build" /\ dash.cur.pc = step

Viz_list ==
    /\ Building("list")
    /\ \E resp \in VizListResponses :
          dash' = viz_step(dash, generate_dashboard_list(cfg, dash.cur, resp), "list",
                           ClusterAPI_list(cfg, resp).out.tag = "raise")
    /\ UNCHANGED <<cfg, calls, requests, decodes, last, svc, w, cli, flow>>

Viz_health ==
    /\ Building("health")
    /\ \E resp \in VizHealthResponses :
          dash' = viz_step(dash, generate_dashboard_health(cfg, dash.cur, resp), "health",
                           HealthAPI_cluster(cfg, "c1", resp).out.tag = "raise")
    /\ UNCHANGED <<cfg, calls, requests, decodes, last, svc, w, cli, flow>>

Viz_workspaces ==
    /\ Building("workspaces")
    /\ ~dash.cur.connection_error
    /\ LET id == generate_dashboard_cluster_id(dash.cur) IN
          /\ id.tag = "return" /\ Truthy(id.value)
          /\ \E resp \in VizWorkspaceResponses :
                dash' = viz_step(dash,
                            generate_dashboard_workspaces(cfg, dash.cur, id.value, resp),
                            "workspaces",
                            WorkspaceAPI_list(cfg, py_str(id.value), resp).out.tag = "raise")
    /\ UNCHANGED <<cfg, calls, requests, decodes, last, svc, w, cli, flow>>

Viz_no_workspaces ==
    /\ Building("workspaces")
    /\ \/ dash.cur.connection_error
       \/ LET id == generate_dashboard_cluster_id(dash.cur) IN
             id.tag = "raise" \/ ~Truthy(id.value)
    /\ dash' = viz_step(dash, generate_dashboard_no_workspaces(cfg, dash.cur),
                        "none", FALSE)
    /\ UNCHANGED <<cfg, calls, requests, decodes, last, svc, w, cli, flow>>

Viz_tick ==
    /\ dash.on /\ dash.kind = "viz" /\ dash.pc = "sleep"
    /\ dash.tick < MaxTicks
    /\ dash' = viz_tick(dash)
    /\ UNCHANGED <<cfg, calls, requests, decodes, last, svc, w, cli, flow>>

\* KeyboardInterrupt reaches viz between two steps of its cycle: while it
\* builds a layout, or while it sleeps.
Viz_interrupt ==
    /\ dash.on /\ dash.kind = "viz" /\ dash.pc \in {"build", "sleep"}
    /\ dash' = viz_except(dash)
    /\ UNCHANGED <<cfg, calls, requests, decodes, last, svc, w, cli, flow>>

\* KeyboardInterrupt reaches viz while a query of generate_dashboard waits
\* for its answer: the request is out, no answer is used.
Viz_interrupt_query ==
    /\ dash.on /\ dash.kind = "viz" /\ dash.pc = "build"
    /\ \/ dash.cur.pc \in {"list", "health"}
       \/ /\ dash.cur.pc = "workspaces" /\ ~dash.cur.connection_error
          /\ LET id == generate_dashboard_cluster_id(dash.cur) IN
                id.tag = "return" /\ Truthy(id.value)
    /\ dash' = viz_except([dash EXCEPT !.nreq = @ + 1, !.pc = "query"])
    /\ UNCHANGED <<cfg, calls, requests, decodes, last, svc, w, cli, flow>>

Run_update ==
    /\ dash.on /\ dash.kind = "run" /\ dash.pc = "update"
    /\ dash' = Dashboard_update_layout(dash)
    /\ UNCHANGED <<cfg, calls, requests, decodes, last, svc, w, cli, flow>>

Run_tick ==
    /\ dash.on /\ dash.kind = "run" /\ dash.pc = "sleep"
    /\ dash.tick < MaxTicks
    /\ dash' = Dashboard_run_tick(dash)
    /\ UNCHANGED <<cfg, calls, requests, decodes, last, svc, w, cli, flow>>

Run_interrupt ==
    /\ dash.on /\ dash.kind = "run" /\ dash.pc \in {"update", "sleep"}
    /\ dash' = Dashboard_run_except(dash)
    /\ UNCHANGED <<cfg, calls, requests, decodes, last, svc, w, cli, flow>>

\* The refresh thread of the live display draws.
Live_refresh ==
    /\ dash.on /\ dash.live
    /\ dash' = Live_draw(dash)
    /\ UNCHANGED <<cfg, calls, requests, decodes, last, svc, w, cli, flow>>

LoopNext ==
    \/ Viz_list
    \/ Viz_health
    \/ Viz_workspaces
    \/ Viz_no_workspaces
    \/ Viz_tick
    \/ Viz_interrupt
    \/ Viz_interrupt_query
    \/ Run_update
    \/ Run_tick
    \/ Run_interrupt
    \/ Live_refresh

LoopSpec == LoopInit /\ [][LoopNext]_vars

\* ------------------------------------ properties: the dashboard refresh loops

\* The panels that were filled all come from one refresh cycle.
OneCycle(panels) ==
    \A p \in DOMAIN panels, q \in DOMAIN panels :
       panels[p].cycle > 0 /\ panels[q].cycle > 0 => panels[p].cycle = panels[q].cycle

\* The loop has finished the refresh of this tick and sleeps.
Refreshed == dash.on /\ dash.pc = "sleep"

\* C21: neither refresh loop ends because a query failed: whichever of the
\* cluster-list, health and workspace queries fail on a tick, the loop shows a
\* degraded panel for it and goes on to its sleep and the next tick; it ends
\* only on an interrupt.
C21_QueryFailureNeverEndsLoop ==
    dash.on =>
        /\ dash.pc \in {"build", "update", "sleep", "closed"}
        /\ dash.pc = "closed" => dash.interrupted
        /\ dash.exit # "running" => dash.interrupted
        /\ Refreshed /\ dash.kind = "viz" =>
              /\ \A p \in DOMAIN dash.screen : dash.screen[p].cycle = dash.tick
              /\ "list" \in dash.failed =>
                    dash.screen["clusters"].title \in {"Connection Error", "Error"}
              /\ "health" \in dash.failed =>
                    \E k \in 1..Len(dash.screen["clusters"].cells) :
                       dash.screen["clusters"].cells[k] = "[yellow]? Unknown[/yellow]"
              /\ "workspaces" \in dash.failed =>
                    dash.screen["workspaces"].title = "Error"
        /\ Refreshed /\ dash.kind = "run" =>
              /\ \A p \in DOMAIN dash.screen : dash.screen[p].cycle = dash.tick
              /\ dash.failed = {"health", "stats", "clusters", "workspaces"}
              /\ dash.nreq = 0

C21_Witness ==
    /\ Refreshed /\ dash.kind = "viz"
    /\ dash.tick = 2
    /\ dash.survived = {"health", "workspaces"}
    /\ dash.failed = {"list"}

\* C22: every frame the dashboard draws, the frames of the display's periodic
\* refresh during an update and what is left after an interrupt included,
\* consists of panels of one refresh cycle, never of panels of the previous
\* cycle next to panels of a new one.
C22_FramesOfOneCycle ==
    dash.on =>
        /\ dash.frame.drawn => OneCycle(dash.frame.panels)
        /\ dash.pc = "closed" => OneCycle(dash.screen)

\* C23: once KeyboardInterrupt has reached a refresh loop, during a query,
\* while it renders or while it sleeps, the loop sends no further request,
\* starts no further tick, and has returned normally after printing that the
\* dashboard is closed.
C23_InterruptEndsLoop ==
    [][ dash.on /\ dash'.interrupted =>
          /\ dash'.pc = "closed"
          /\ dash'.exit = "return"
          /\ dash'.printed # <<>>
          /\ dash'.printed[Len(dash'.printed)] \in {"Dashboard closed", "Dashboard stopped"}
          /\ dash'.at \in {"build", "query", "update", "sleep"}
          /\ dash.interrupted => dash'.nreq = dash.nreq /\ dash'.tick = dash.tick
      ]_vars

C23_Witness ==
    /\ dash.on /\ dash.interrupted
    /\ dash.kind = "viz"
    /\ dash.at = "query"
    /\ dash.tick = 2
    /\ dash.nreq = 4
    /\ dash.pc = "closed"

====
